---- MODULE Spec2Model ----
(***************************************************************************)
(* Usage metering, entitlement gate and processing endpoints of the        *)
(* document summarizer backend (backend/server.js,                         *)
(* backend/middleware/subscriptionAuth.js, backend/models/Usage.js,        *)
(* services/documentProcessor.js, backend/services/openaiService.js).      *)
(***************************************************************************)
EXTENDS Integers, Sequences, FiniteSets, Bags, TLC

(* ------------------------------ bounds --------------------------------- *)

\* Requests started in one behaviour of the concurrent specification.
MaxRequests == 2

\* Requests started in one behaviour of the sequential specification.
MaxSeqRequests == 6

\* One-page documents a user may already have processed this month when the
\* concurrent specification starts (it also starts from an empty ledger).
PriorDocuments == 4

\* Direct concurrent callers of Usage.incrementUsage in the ledger harness.
MaxCallers == 3

\* Request slots: requests that may be in flight at the same time.
Slots == {1, 2}

Users == {"u1"}

\* Page counts extraction may report for the documents sent to
\* /api/process-document and to /api/process-document-guest.
PageCounts == {1, 50}

GuestPageCounts == {1, 2, 3}

\* req.body.summarySize as sent by a client ("absent": field not sent).
RequestedSizes == {"absent", "medium", "long", "huge"}

\* The same field as sent to the guest endpoint, whose handler never reads it.
GuestRequestedSizes == {"absent", "long"}

\* pageCount arguments of the direct Usage.incrementUsage callers.
LedgerPageCounts == {0, 1, 3}

\* Requests followed through the entitlement gate in the read-side specification.
MaxGateRuns == 1

\* documentCount and pageCount of the UsageRecord the read-side specification
\* starts from: the values around the limits of the free and premium plans.
ProbeDocumentCounts == {1, 4, 5, 6, 49, 50, 51}

ProbePageCounts == {0, 99, 100, 101, 999, 1000, 1001}

\* plan arguments of direct hasExceededLimit calls ("enterprise": not in the table).
ProbePlans == {"free", "premium", "pro", "enterprise", "constructor"}

\* Uploads started in one behaviour of the document-history specification.
MaxDocRequests == 1

\* Months the clock advances, and Usage.incrementUsage calls made, in one
\* behaviour of the calendar specification.
MaxTicks == 4

MaxIncrements == 5

\* pageCount arguments of the increments of the calendar specification.
MonthPageCounts == {1, 100}

\* Numbers of words in the texts given to the extractors.
WordCounts == {0, 1, 499, 500, 501, 1000}

\* data.numpages reported by pdf-parse.
PdfPageCounts == {1, 3}

\* Extensions of the uploaded files (".exe": one processDocument does not support).
Extensions == {".pdf", ".docx", ".txt", ".rtf", ".odt", ".exe"}

\* error.message of the errors whose code generateSummary does not test.
UpstreamTexts == {"Connection error.", "Request failed"}

\* What generateSummary may catch: the sub-reason of the failure, and the code
\* and message of the error object ("none": the error has no code).
UpstreamError(reason, code, message) ==
  [reason |-> reason, code |-> code, message |-> message]

UpstreamErrors ==
  {UpstreamError("quota_exceeded", "insufficient_quota", "You exceeded your current quota"),
   UpstreamError("rate_limited", "rate_limit_exceeded", "Rate limit reached"),
   UpstreamError("invalid_credential", "invalid_api_key", "Incorrect API key provided")}
  \cup {UpstreamError("malformed_input", "invalid_request_error", text) :
          text \in UpstreamTexts}
  \cup {UpstreamError("timeout", "none", text) : text \in UpstreamTexts}

\* Photos uploaded in the batch of the photo specification.
MaxPhotos == 3

\* What the vision model returns for a photo: text, or none.
PhotoTexts == {"", "text"}

(* ------------------------- program constants --------------------------- *)

FreeDocuments == 5
FreePages == 100
PremiumDocuments == 50
PremiumPages == 1000
\* JavaScript Infinity: greater than every count the ledger can hold.
Infinity == 1000000000

\* undefined, where a number is read from a value that has no such property.
Undefined == -2

GuestMaxPages == 2
FreeHistory == 5
PaidHistory == 50
AuthHistory == 50
WordsPerPage == 500

(* ------------------------------- state --------------------------------- *)

VARIABLES
  now,           \* the server clock: [year, month], month as Date.getMonth() (0..11)
  subscription,  \* Subscription collection: plan of each user, "none" when no record
  usages,        \* Usage collection: sequence of records in insertion order
  documents,     \* Document collection: bag of [userId, summarySize]
  files,         \* uploads directory: names of the uploaded files on disk
  pc,            \* position of the request in each slot
  req,           \* request object of each slot (req.user, req.subscription, req.usage, ...)
  resp,          \* response sent by each slot
  hist,          \* what the request in each slot has done so far
  started,       \* requests started
  successes,     \* success responses sent by /api/process-document
  ledgerFailures,\* Usage.incrementUsage calls of requests that threw
  callers,       \* ledger harness: state of each direct Usage.incrementUsage caller
  probe,         \* a direct call of one function or read endpoint: arguments and result
  photos,        \* Photo collection: the records of the batch, by processingOrder
  worker         \* processPhotosInBackground: its position in the batch

vars == <<now, subscription, usages, documents, files, pc, req, resp, hist,
          started, successes, photos, worker, ledgerFailures, callers, probe>>

(* ------------------------- models/Usage.js ----------------------------- *)

\* Strings are sequences of character codes: '-' is 45, '0'..'9' are 48..57.
Hyphen == 45

Zero == 48

\* String(n) for a non-negative integer: its decimal digits.
RECURSIVE String(_)
String(n) == IF n < 10 THEN <<Zero + n>> ELSE String(n \div 10) \o <<Zero + (n % 10)>>

\* str.padStart(2, '0')
padStart2(str) == IF Len(str) >= 2 THEN str ELSE <<Zero>> \o str

\* The period key without the padding of the month.
getCurrentMonth_Unpadded(t) == String(t.year) \o <<Hyphen>> \o String(t.month + 1)

\* `${now.getFullYear()}-${String(now.getMonth() + 1).padStart(2, '0')}`
getCurrentMonth(t) ==
  String(t.year) \o <<Hyphen>> \o padStart2(String(t.month + 1))

\* Indexes of the records matching { userId, month }.
Matching(us, userId, month) ==
  {i \in 1..Len(us) : us[i].userId = userId /\ us[i].month = month}

\* Model.findOne({ userId, month }): index of the first match, 0 for null.
findOne(us, userId, month) ==
  IF Matching(us, userId, month) = {} THEN 0
  ELSE CHOOSE i \in Matching(us, userId, month) :
         \A j \in Matching(us, userId, month) : i <= j

getCurrentUsage(us, userId, month) ==
  LET i == findOne(us, userId, month) IN
  [documentCount |-> IF i # 0 THEN us[i].documentCount ELSE 0,
   pageCount     |-> IF i # 0 THEN us[i].pageCount ELSE 0]

\* Names every object literal answers through Object.prototype: limits[plan] is
\* then a function or an object, which is truthy, and `|| limits.free` is not
\* reached.
ObjectPrototypeNames ==
  {"constructor", "toString", "valueOf", "hasOwnProperty", "__proto__"}

\* What such a value gives for .documents and .pages.
Inherited == [documents |-> Undefined, pages |-> Undefined]

\* a >= b of JavaScript: false when b is undefined.
AtLeast(a, b) == b # Undefined /\ a >= b

\* The table `limits` inside hasExceededLimit, with `limits[plan] || limits.free`.
ExceededLimits(plan) ==
  CASE plan = "free"    -> [documents |-> FreeDocuments, pages |-> FreePages]
    [] plan = "premium" -> [documents |-> PremiumDocuments, pages |-> PremiumPages]
    [] plan = "pro"     -> [documents |-> Infinity, pages |-> Infinity]
    [] plan \in ObjectPrototypeNames -> Inherited
    [] OTHER            -> [documents |-> FreeDocuments, pages |-> FreePages]

\* getLimits keeps a table of its own.
getLimits(plan) ==
  CASE plan = "free"    -> [documents |-> 5, pages |-> 100]
    [] plan = "premium" -> [documents |-> 50, pages |-> 1000]
    [] plan = "pro"     -> [documents |-> Infinity, pages |-> Infinity]
    [] plan \in ObjectPrototypeNames -> Inherited
    [] OTHER            -> [documents |-> 5, pages |-> 100]

NotExceeded == [exceeded |-> FALSE, reason |-> "null", current |-> 0, limit |-> 0]

\* hasExceededLimit comparing with > where the code has >=.
hasExceededLimit_Strict(us, userId, plan, month) ==
  LET limit == ExceededLimits(plan)
      currentUsage == getCurrentUsage(us, userId, month)
  IN IF limit.documents = Infinity /\ limit.pages = Infinity THEN NotExceeded
     ELSE IF limit.documents # Undefined /\ currentUsage.documentCount > limit.documents
       THEN [exceeded |-> TRUE, reason |-> "document_limit",
             current |-> currentUsage.documentCount, limit |-> limit.documents]
     ELSE IF limit.pages # Undefined /\ currentUsage.pageCount > limit.pages
       THEN [exceeded |-> TRUE, reason |-> "page_limit",
             current |-> currentUsage.pageCount, limit |-> limit.pages]
     ELSE NotExceeded

\* hasExceededLimit testing the page limit before the document limit.
hasExceededLimit_PagesFirst(us, userId, plan, month) ==
  LET limit == ExceededLimits(plan)
      currentUsage == getCurrentUsage(us, userId, month)
  IN IF limit.documents = Infinity /\ limit.pages = Infinity THEN NotExceeded
     ELSE IF AtLeast(currentUsage.pageCount, limit.pages)
       THEN [exceeded |-> TRUE, reason |-> "page_limit",
             current |-> currentUsage.pageCount, limit |-> limit.pages]
     ELSE IF AtLeast(currentUsage.documentCount, limit.documents)
       THEN [exceeded |-> TRUE, reason |-> "document_limit",
             current |-> currentUsage.documentCount, limit |-> limit.documents]
     ELSE NotExceeded

hasExceededLimit(us, userId, plan, month) ==
  LET limit == ExceededLimits(plan)
      currentUsage == getCurrentUsage(us, userId, month)
  IN IF limit.documents = Infinity /\ limit.pages = Infinity THEN NotExceeded
     ELSE IF AtLeast(currentUsage.documentCount, limit.documents)
       THEN [exceeded |-> TRUE, reason |-> "document_limit",
             current |-> currentUsage.documentCount, limit |-> limit.documents]
     ELSE IF AtLeast(currentUsage.pageCount, limit.pages)
       THEN [exceeded |-> TRUE, reason |-> "page_limit",
             current |-> currentUsage.pageCount, limit |-> limit.pages]
     ELSE NotExceeded

\* The update written with $set where the code has $inc.
IncExisting_Sets(us, userId, month, pageCount) ==
  LET i == findOne(us, userId, month) IN
  [us EXCEPT ![i] = [@ EXCEPT !.documentCount = 1, !.pageCount = pageCount]]

\* The update counting every document as one page.
IncExisting_OnePage(us, userId, month, pageCount) ==
  LET i == findOne(us, userId, month) IN
  [us EXCEPT ![i] = [@ EXCEPT !.documentCount = @ + 1, !.pageCount = @ + 1]]

\* findOneAndUpdate on an existing record: $inc applied atomically to the match.
IncExisting(us, userId, month, pageCount) ==
  LET i == findOne(us, userId, month) IN
  [us EXCEPT ![i] = [@ EXCEPT !.documentCount = @ + 1,
                              !.pageCount = @ + pageCount]]

\* The query of findOneAndUpdate matches a record.
Found(us, userId, month) == findOne(us, userId, month) # 0

\* The collection without its unique index: every insert is admitted.
UniqueIndexAdmits_NoIndex(us, userId, month) == TRUE

\* The unique index { userId: 1, month: 1 } admits the insert.
UniqueIndexAdmits(us, userId, month) == Matching(us, userId, month) = {}

\* The insert half of the upsert: defaults (0, 0), then $inc.
InsertUsage(us, userId, month, pageCount) ==
  Append(us, [userId |-> userId, month |-> month,
              documentCount |-> 1, pageCount |-> pageCount])

(* --------------------------- request records --------------------------- *)

NoUsage == [documentCount |-> -1, pageCount |-> -1]

NoLimits == [documents |-> -1, pages |-> -1]

\* req.usage before checkSubscription has set it.
NoReqUsage == [current |-> NoUsage, hasExceeded |-> FALSE,
               limitReason |-> "null", limits |-> NoLimits]

NoMessage == [cites |-> "none", processed |-> -1, limit |-> -1]

NoReq == [kind |-> "none", user |-> "none", plan |-> "unset", usage |-> NoReqUsage,
          file |-> 0, body |-> "absent", textEmpty |-> FALSE, pageCount |-> 0,
          summarySize |-> "unset"]

NoResp == [status |-> 0, error |-> "none", reason |-> "null", message |-> NoMessage,
           currentUsage |-> NoUsage, limits |-> NoLimits, summarySize |-> "unset",
           usage |-> NoReqUsage, pageCount |-> -1, maxPages |-> -1, details |-> "none"]

\* No direct caller of Usage.incrementUsage.
NoCaller == [pc |-> "idle", pageCount |-> 0, calls |-> 0, applied |-> 0,
             error |-> "none"]

\* processPhotosInBackground has not been called.
NoWorker == [pc |-> "none", i |-> 0, result |-> "none"]

\* No direct call in progress.
NoProbe == [op |-> "none"]

NoHist == [stored |-> FALSE, reads |-> 0, writes |-> 0, saved |-> "none",
           summarizerCalls |-> 0, sumTier |-> "none"]

Reply(r, answer) ==
  /\ resp' = [resp EXCEPT ![r] = answer]
  /\ pc' = [pc EXCEPT ![r] = "done"]

\* fs.unlinkSync(req.file.path), and the catch blocks' existsSync-guarded unlink.
Unlink(fs, file) == fs \ {file}

\* multer's filename callback yields a name no file on disk has; which one does
\* not matter, so it is the least unused.
FreshName(fs) == CHOOSE n \in 1..(Cardinality(fs) + 1) : n \notin fs

(* ------------------- middleware/subscriptionAuth.js -------------------- *)

\* checkSubscription, up to Subscription.findOne and the free subscription
\* it creates for a user who has none.
CheckSubscription(r) ==
  /\ pc[r] = "checkSubscription"
  /\ LET u == req[r].user
         plan == IF subscription[u] = "none" THEN "free" ELSE subscription[u]
     IN /\ subscription' = [subscription EXCEPT ![u] = plan]
        /\ req' = [req EXCEPT ![r].plan = plan]
  /\ pc' = [pc EXCEPT ![r] = "getCurrentUsage"]
  /\ UNCHANGED <<now, usages, documents, files, resp, hist, started, successes, photos, worker,
                 ledgerFailures, callers, probe>>

\* const currentUsage = await Usage.getCurrentUsage(req.user._id)
GetCurrentUsage(r) ==
  /\ pc[r] = "getCurrentUsage"
  /\ req' = [req EXCEPT ![r].usage.current =
               getCurrentUsage(usages, req[r].user, getCurrentMonth(now))]
  /\ hist' = [hist EXCEPT ![r].reads = @ + 1]
  /\ pc' = [pc EXCEPT ![r] = "hasExceededLimit"]
  /\ UNCHANGED <<now, subscription, usages, documents, files, resp, started,
                 successes, photos, worker, ledgerFailures, callers, probe>>

\* Reading a property of a string primitive: req.usage.limitReason holds
\* limitCheck.reason, a string, which has no property reason, current or limit.
PropertyOfString(str, name) == "undefined"

\* The 403 body of canUploadDocument, after
\* const { reason, current, limit } = req.usage.limitReason.
DenialResponse(rq) ==
  LET reason == PropertyOfString(rq.usage.limitReason, "reason")
      usage == rq.usage.current
  IN [NoResp EXCEPT
        !.status = 403,
        !.error = IF reason = "document_limit" THEN "Document limit exceeded"
                  ELSE IF reason = "page_limit" THEN "Page limit exceeded"
                  ELSE "You have reached your monthly limit",
        !.message = IF reason = "document_limit"
                      THEN [cites |-> "documents", processed |-> usage.documentCount,
                            limit |-> rq.usage.limits.documents]
                    ELSE IF reason = "page_limit"
                      THEN [cites |-> "pages", processed |-> usage.pageCount,
                            limit |-> rq.usage.limits.pages]
                    ELSE NoMessage,
        !.currentUsage = usage,
        !.limits = rq.usage.limits,
        !.reason = reason]

\* The gate placed after the upload middleware: the file is on disk when the
\* 403 is sent.
CanUploadDocument_StoresFirst(r) ==
  /\ pc[r] = "hasExceededLimit"
  /\ LET limitCheck == hasExceededLimit(usages, req[r].user, req[r].plan,
                                        getCurrentMonth(now))
         rq == [req[r] EXCEPT !.file = FreshName(files),
                              !.usage = [current |-> req[r].usage.current,
                                         hasExceeded |-> limitCheck.exceeded,
                                         limitReason |-> limitCheck.reason,
                                         limits |-> getLimits(req[r].plan)]]
     IN /\ req' = [req EXCEPT ![r] = rq]
        /\ files' = files \cup {FreshName(files)}
        /\ hist' = [hist EXCEPT ![r].stored = TRUE]
        /\ IF rq.usage.hasExceeded
             THEN Reply(r, DenialResponse(rq))
             ELSE /\ pc' = [pc EXCEPT ![r] = "processDocument"]
                  /\ UNCHANGED resp
  /\ UNCHANGED <<now, subscription, usages, documents, started, successes, photos, worker,
                 ledgerFailures, callers, probe>>

\* The rest of checkSubscription (hasExceededLimit, getLimits, req.usage), then
\* canUploadDocument's decision: 403, or next() into the upload middleware.
CanUploadDocument(r) ==
  /\ pc[r] = "hasExceededLimit"
  /\ LET limitCheck == hasExceededLimit(usages, req[r].user, req[r].plan,
                                        getCurrentMonth(now))
         rq == [req[r] EXCEPT !.usage = [current |-> req[r].usage.current,
                                         hasExceeded |-> limitCheck.exceeded,
                                         limitReason |-> limitCheck.reason,
                                         limits |-> getLimits(req[r].plan)]]
     IN /\ req' = [req EXCEPT ![r] = rq]
        /\ hist' = [hist EXCEPT ![r].reads =
                      IF ExceededLimits(req[r].plan).documents = Infinity
                         /\ ExceededLimits(req[r].plan).pages = Infinity
                      THEN @ ELSE @ + 1]
        /\ IF rq.usage.hasExceeded
             THEN Reply(r, DenialResponse(rq))
             ELSE /\ pc' = [pc EXCEPT ![r] = "upload"]
                  /\ UNCHANGED resp
  /\ UNCHANGED <<now, subscription, usages, documents, files, started, successes, photos, worker,
                 ledgerFailures, callers, probe>>

(* --------------------- services/documentProcessor.js -------------------- *)

\* A text as String.prototype.split(/\s+/) and trim() see it: whether it starts
\* with whitespace, how many maximal runs of non-whitespace (words) it has, and
\* whether it ends with whitespace. A text without words is "" or one run of
\* whitespace, recorded as lead.
Text(lead, words, trail) == [lead |-> lead, words |-> words, trail |-> trail]

\* Maximal runs of whitespace in a text: the matches of /\s+/.
WhitespaceRuns(t) ==
  (IF t.words > 0 THEN t.words - 1 ELSE 0)
    + (IF t.lead THEN 1 ELSE 0) + (IF t.trail THEN 1 ELSE 0)

\* text.split(/\s+/).length: one piece more than there are separators, the
\* empty pieces before a leading and after a trailing separator included.
SplitLength(t) == WhitespaceRuns(t) + 1

\* text.trim()
Trim(t) == Text(FALSE, t.words, FALSE)

\* The text the DOCX and ODT loops build: every run or node is followed by ' ',
\* every paragraph by '\n', so a text with words ends with whitespace.
Built(t) == Text(t.lead, t.words, t.words > 0)

\* Math.ceil(n / d) for n >= 0
Ceil(n, d) == (n + d - 1) \div d

Max(a, b) == IF a >= b THEN a ELSE b

\* Math.max(1, Math.ceil(text.split(/\s+/).length / 500))
EstimatedPages(t) == Max(1, Ceil(SplitLength(t), WordsPerPage))

Extracted(text, pageCount) ==
  [ok |-> TRUE, text |-> text, pageCount |-> pageCount, error |-> "none"]

Thrown(error) ==
  [ok |-> FALSE, text |-> Text(FALSE, 0, FALSE), pageCount |-> 0, error |-> error]

\* The call has not returned yet.
Pending == Thrown("pending")

extractTextFromPDF(file) ==
  IF ~file.readable \/ file.parse # "ok" THEN Thrown("PDF processing error")
  ELSE Extracted(file.parsed, file.numpages)

extractTextFromDOCX(file) ==
  IF ~file.readable \/ file.parse # "ok" THEN Thrown("DOCX processing error")
  ELSE Extracted(Trim(Built(file.parsed)), EstimatedPages(Built(file.parsed)))

extractTextFromTXT(file) ==
  IF ~file.readable THEN Thrown("TXT processing error")
  ELSE Extracted(file.raw, EstimatedPages(file.raw))

\* file.parsed: what the removal of the RTF commands and groups leaves.
extractTextFromRTF(file) ==
  IF ~file.readable THEN Thrown("RTF processing error")
  ELSE Extracted(Trim(file.parsed), EstimatedPages(Trim(file.parsed)))

\* extractTextFromODT rethrowing what its try block caught.
extractTextFromODT_NoFallback(file) ==
  IF file.parse = "ok"
    THEN Extracted(Trim(Built(file.parsed)), EstimatedPages(Built(file.parsed)))
    ELSE Thrown("ODT processing error")

\* AdmZip, getEntry('content.xml') and xml2js inside try; the catch block
\* returns extractTextFromTXT(filePath).
extractTextFromODT(file) ==
  IF file.parse = "ok"
    THEN Extracted(Trim(Built(file.parsed)), EstimatedPages(Built(file.parsed)))
    ELSE extractTextFromTXT(file)

\* The switch on the extension; every error is rethrown as
\* "Failed to extract text from <ext> file: ...".
processDocument(file) ==
  LET result == CASE file.ext = ".pdf"  -> extractTextFromPDF(file)
                  [] file.ext = ".docx" -> extractTextFromDOCX(file)
                  [] file.ext = ".txt"  -> extractTextFromTXT(file)
                  [] file.ext = ".rtf"  -> extractTextFromRTF(file)
                  [] file.ext = ".odt"  -> extractTextFromODT(file)
                  [] OTHER              -> Thrown("Unsupported file type")
  IN IF result.ok THEN result ELSE Thrown("Failed to extract text")

(* ------------------------- services, server.js ------------------------- *)

ValidSizes == {"short", "medium", "long"}

\* Tier resolution without the free plan's downgrade.
ResolveSummarySize_NoDowngrade(plan, body) ==
  IF body = "absent" THEN "short" ELSE body

\* let summarySize = req.body.summarySize || 'short', then the free plan's
\* downgrade of 'long' to 'medium'.
ResolveSummarySize(plan, body) ==
  LET summarySize == IF body = "absent" THEN "short" ELSE body
  IN IF plan = "free" /\ summarySize = "long" THEN "medium" ELSE summarySize

\* The guest handler reading req.body.summarySize as the authenticated one does.
GuestSummarySize_FromBody(body) == IF body = "absent" THEN "short" ELSE body

\* Guest users can only use short summaries: const summarySize = 'short'.
GuestSummarySize(body) == "short"

\* The guest ceiling tested with >= where the code has >.
GuestTooLarge_AtLeast(pageCount) == pageCount >= GuestMaxPages

\* if (documentData.pageCount > 2)
GuestTooLarge(pageCount) == pageCount > GuestMaxPages

\* `OpenAI API error: ${error.message}`
OpenAIApiError(message) ==
  CASE message = "Connection error." -> "OpenAI API error: Connection error."
    [] message = "Request failed" -> "OpenAI API error: Request failed"
    [] OTHER -> "OpenAI API error: "

\* The message of the Error the catch block of generateSummary throws.
UpstreamMessage(error) ==
  CASE error.code = "insufficient_quota"  -> "OpenAI API quota exceeded"
    [] error.code = "rate_limit_exceeded" -> "OpenAI API rate limit exceeded"
    [] error.code = "invalid_api_key"     -> "Invalid OpenAI API key"
    [] OTHER                              -> OpenAIApiError(error.message)

ServerError(details) ==
  [NoResp EXCEPT !.status = 500, !.error = "Error processing document",
                 !.details = details]

\* documentData and summarySize are declared inside the try block: the catch
\* block no longer has them.
LeaveTry(rq) == [rq EXCEPT !.textEmpty = FALSE, !.pageCount = 0, !.summarySize = "unset"]

BadRequest(error) == [NoResp EXCEPT !.status = 400, !.error = error]

\* A request enters a free slot. For /api/process-document requireAuth has set
\* req.user and canUploadDocument runs next; /api/process-document-guest has no
\* auth middleware and goes straight to multer.
Begin(r, kind, limit) ==
  /\ pc[r] = "idle"
  /\ \A q \in Slots : q < r => pc[q] # "idle"   \* the slots are interchangeable
  /\ started < limit
  /\ started' = started + 1
  /\ IF kind = "auth"
       THEN /\ \E u \in Users :
                 req' = [req EXCEPT ![r] = [NoReq EXCEPT !.kind = "auth", !.user = u]]
            /\ pc' = [pc EXCEPT ![r] = "checkSubscription"]
       ELSE /\ req' = [req EXCEPT ![r] = [NoReq EXCEPT !.kind = "guest"]]
            /\ pc' = [pc EXCEPT ![r] = "upload"]
  /\ UNCHANGED <<now, subscription, usages, documents, files, resp, hist, successes, photos, worker,
                 ledgerFailures, callers, probe>>

StartAuth(r) == Begin(r, "auth", MaxRequests)

StartGuest(r) == Begin(r, "guest", MaxRequests)

\* The same requests when the client sends one only after the previous answer.
NoneInFlight == \A q \in Slots : pc[q] = "idle"

StartAuthAlone(r) == NoneInFlight /\ Begin(r, "auth", MaxSeqRequests)

StartGuestAlone(r) == NoneInFlight /\ Begin(r, "guest", MaxSeqRequests)

\* upload.single('document'): the file is written under a unique name, or the
\* request carries no file and the handler answers 400.
Upload(r) ==
  /\ pc[r] = "upload"
  /\ \/ /\ files' = files \cup {FreshName(files)}
        /\ req' = [req EXCEPT ![r].file = FreshName(files)]
        /\ hist' = [hist EXCEPT ![r].stored = TRUE]
        /\ pc' = [pc EXCEPT ![r] = "processDocument"]
        /\ UNCHANGED resp
     \/ /\ Reply(r, BadRequest("No file uploaded"))
        /\ UNCHANGED <<files, req, hist>>
  /\ UNCHANGED <<now, subscription, usages, documents, started, successes, photos, worker,
                 ledgerFailures, callers, probe>>

\* The authenticated handler from processDocument to the call of generateSummary.
AuthExtract(r) ==
  /\ pc[r] = "processDocument"
  /\ req[r].kind = "auth"
  /\ \/ \* processDocument throws: the catch block unlinks and answers 500
        /\ files' = Unlink(files, req[r].file)
        /\ Reply(r, ServerError("Failed to extract text"))
        /\ UNCHANGED <<req, hist>>
     \/ \* no extractable text: 400, returned from inside the try block
        /\ \E pages \in PageCounts :
             req' = [req EXCEPT ![r].textEmpty = TRUE, ![r].pageCount = pages]
        /\ Reply(r, BadRequest("Could not extract text from the document"))
        /\ UNCHANGED <<files, hist>>
     \/ \E pages \in PageCounts, body \in RequestedSizes :
          LET summarySize == ResolveSummarySize(req[r].plan, body)
              rq == [req[r] EXCEPT !.pageCount = pages, !.body = body,
                                   !.summarySize = summarySize]
          IN /\ req' = [req EXCEPT ![r] = rq]
             /\ IF summarySize \notin ValidSizes
                  THEN /\ Reply(r, BadRequest("Invalid summary size"))
                       /\ UNCHANGED hist
                  ELSE /\ pc' = [pc EXCEPT ![r] = "generateSummary"]
                       /\ hist' = [hist EXCEPT ![r].summarizerCalls = @ + 1,
                                               ![r].sumTier = summarySize]
                       /\ UNCHANGED resp
             /\ UNCHANGED files
  /\ UNCHANGED <<now, subscription, usages, documents, started, successes, photos, worker,
                 ledgerFailures, callers, probe>>

\* The authenticated handler charging the ledger before it knows that
\* generateSummary succeeded.
AuthSummarize_BurnsQuota(r) ==
  /\ pc[r] = "generateSummary"
  /\ req[r].kind = "auth"
  /\ LET u == req[r].user
         m == getCurrentMonth(now)
     IN /\ usages' = IF Found(usages, u, m)
                       THEN IncExisting(usages, u, m, req[r].pageCount)
                       ELSE InsertUsage(usages, u, m, req[r].pageCount)
        /\ hist' = [hist EXCEPT ![r].writes = @ + 1]
  /\ \/ /\ pc' = [pc EXCEPT ![r] = "save"]
        /\ UNCHANGED <<files, req, resp>>
     \/ \E error \in UpstreamErrors :
          /\ files' = Unlink(files, req[r].file)
          /\ req' = [req EXCEPT ![r] = LeaveTry(@)]
          /\ Reply(r, ServerError(UpstreamMessage(error)))
  /\ UNCHANGED <<now, subscription, documents, started, successes, photos, worker, ledgerFailures,
                 callers, probe>>

\* The catch block answering 500 without the unlink.
AuthSummarize_KeepsFile(r) ==
  /\ pc[r] = "generateSummary"
  /\ req[r].kind = "auth"
  /\ \/ /\ pc' = [pc EXCEPT ![r] = "save"]
        /\ UNCHANGED <<files, req, resp>>
     \/ \E error \in UpstreamErrors :
          /\ UNCHANGED files
          /\ req' = [req EXCEPT ![r] = LeaveTry(@)]
          /\ Reply(r, ServerError(UpstreamMessage(error)))
  /\ UNCHANGED <<now, subscription, usages, documents, hist, started, successes, photos, worker,
                 ledgerFailures, callers, probe>>

\* await generateSummary(documentData.text, summarySize) in the authenticated handler.
AuthSummarize(r) ==
  /\ pc[r] = "generateSummary"
  /\ req[r].kind = "auth"
  /\ \/ /\ pc' = [pc EXCEPT ![r] = "save"]
        /\ UNCHANGED <<files, req, resp>>
     \/ \E error \in UpstreamErrors :
          /\ files' = Unlink(files, req[r].file)
          /\ req' = [req EXCEPT ![r] = LeaveTry(@)]
          /\ Reply(r, ServerError(UpstreamMessage(error)))
  /\ UNCHANGED <<now, subscription, usages, documents, hist, started, successes, photos, worker,
                 ledgerFailures, callers, probe>>

\* After the incrementUsage middleware has called next(): unlink, then res.json.
Succeed(r) ==
  /\ files' = Unlink(files, req[r].file)
  /\ successes' = successes + 1
  /\ UNCHANGED <<photos, worker>>
  /\ Reply(r, [NoResp EXCEPT !.status = 200, !.summarySize = req[r].summarySize,
                             !.usage = req[r].usage])

\* The handler incrementing the ledger before it saves the Document.
AuthSave_IncrementsFirst(r) ==
  /\ pc[r] = "save"
  /\ LET u == req[r].user
         m == getCurrentMonth(now)
     IN usages' = IF Found(usages, u, m)
                    THEN IncExisting(usages, u, m, req[r].pageCount)
                    ELSE InsertUsage(usages, u, m, req[r].pageCount)
  /\ \/ /\ documents' = documents (+) SetToBag({[userId |-> req[r].user,
                                                 summarySize |-> req[r].summarySize]})
        /\ hist' = [hist EXCEPT ![r].saved = req[r].summarySize, ![r].writes = @ + 1]
        /\ Succeed(r)
        /\ UNCHANGED req
     \/ /\ files' = Unlink(files, req[r].file)
        /\ req' = [req EXCEPT ![r] = LeaveTry(@)]
        /\ hist' = [hist EXCEPT ![r].writes = @ + 1]
        /\ Reply(r, ServerError("Document save failed"))
        /\ UNCHANGED <<documents, successes, photos, worker>>
  /\ UNCHANGED <<now, subscription, started, ledgerFailures, callers, probe>>

\* document.save() not awaited: its rejection does not stop the handler.
AuthSave_IgnoresFailure(r) ==
  /\ pc[r] = "save"
  /\ \/ /\ documents' = documents (+) SetToBag({[userId |-> req[r].user,
                                                 summarySize |-> req[r].summarySize]})
        /\ hist' = [hist EXCEPT ![r].saved = req[r].summarySize]
     \/ UNCHANGED <<documents, hist>>
  /\ pc' = [pc EXCEPT ![r] = "incrementUsage"]
  /\ UNCHANGED <<now, subscription, usages, files, req, resp, started, successes, photos, worker,
                 ledgerFailures, callers, probe>>

\* new Document({...}); await document.save()
AuthSave(r) ==
  /\ pc[r] = "save"
  /\ \/ /\ documents' = documents (+) SetToBag({[userId |-> req[r].user,
                                                 summarySize |-> req[r].summarySize]})
        /\ hist' = [hist EXCEPT ![r].saved = req[r].summarySize]
        /\ pc' = [pc EXCEPT ![r] = "incrementUsage"]
        /\ UNCHANGED <<files, req, resp>>
     \/ /\ files' = Unlink(files, req[r].file)
        /\ req' = [req EXCEPT ![r] = LeaveTry(@)]
        /\ Reply(r, ServerError("Document save failed"))
        /\ UNCHANGED <<documents, hist>>
  /\ UNCHANGED <<now, subscription, usages, started, successes, photos, worker, ledgerFailures,
                 callers, probe>>

\* The incrementUsage middleware without its catch: the error of
\* Usage.incrementUsage reaches the handler's catch block, which answers 500.
AuthIncrement_Surfaces(r) ==
  /\ pc[r] = "incrementUsage"
  /\ LET u == req[r].user
         m == getCurrentMonth(now)
     IN \/ /\ Found(usages, u, m)
           /\ usages' = IncExisting(usages, u, m, req[r].pageCount)
           /\ hist' = [hist EXCEPT ![r].writes = @ + 1]
           /\ Succeed(r)
           /\ UNCHANGED <<ledgerFailures, req>>
        \/ /\ ~Found(usages, u, m)
           /\ pc' = [pc EXCEPT ![r] = "upsertInsert"]
           /\ UNCHANGED <<usages, hist, files, successes, photos, worker, resp, ledgerFailures, req>>
        \/ /\ ledgerFailures' = ledgerFailures + 1
           /\ files' = Unlink(files, req[r].file)
           /\ req' = [req EXCEPT ![r] = LeaveTry(@)]
           /\ Reply(r, ServerError("Usage increment failed"))
           /\ UNCHANGED <<usages, hist, successes, photos, worker>>
  /\ UNCHANGED <<now, subscription, documents, started, callers, probe>>

\* Usage.incrementUsage called by the incrementUsage middleware: findOneAndUpdate
\* with upsert finds the record and applies $inc, or finds none and goes on to
\* insert; an error other than 11000 is rethrown, and the middleware swallows it.
AuthIncrement(r) ==
  /\ pc[r] = "incrementUsage"
  /\ LET u == req[r].user
         m == getCurrentMonth(now)
     IN \/ /\ Found(usages, u, m)
           /\ usages' = IncExisting(usages, u, m, req[r].pageCount)
           /\ hist' = [hist EXCEPT ![r].writes = @ + 1]
           /\ Succeed(r)
           /\ UNCHANGED ledgerFailures
        \/ /\ ~Found(usages, u, m)
           /\ pc' = [pc EXCEPT ![r] = "upsertInsert"]
           /\ UNCHANGED <<usages, hist, files, successes, photos, worker, resp, ledgerFailures>>
        \/ /\ ledgerFailures' = ledgerFailures + 1
           /\ Succeed(r)
           /\ UNCHANGED <<usages, hist>>
  /\ UNCHANGED <<now, subscription, documents, req, started, callers, probe>>

\* The insert of the upsert: admitted by the unique index, or rejected with
\* error 11000, which incrementUsage answers by calling itself again.
AuthUpsertInsert(r) ==
  /\ pc[r] = "upsertInsert"
  /\ LET u == req[r].user
         m == getCurrentMonth(now)
     IN \/ /\ UniqueIndexAdmits(usages, u, m)
           /\ usages' = InsertUsage(usages, u, m, req[r].pageCount)
           /\ hist' = [hist EXCEPT ![r].writes = @ + 1]
           /\ Succeed(r)
        \/ /\ ~UniqueIndexAdmits(usages, u, m)
           /\ pc' = [pc EXCEPT ![r] = "incrementUsage"]
           /\ UNCHANGED <<usages, hist, files, successes, photos, worker, resp>>
  /\ UNCHANGED <<now, subscription, documents, req, started, ledgerFailures, callers, probe>>

\* The guest handler from processDocument to the call of generateSummary.
GuestExtract(r) ==
  /\ pc[r] = "processDocument"
  /\ req[r].kind = "guest"
  /\ \/ /\ files' = Unlink(files, req[r].file)
        /\ Reply(r, ServerError("Failed to extract text"))
        /\ UNCHANGED <<req, hist>>
     \/ /\ \E pages \in GuestPageCounts, body \in GuestRequestedSizes :
             req' = [req EXCEPT ![r].textEmpty = TRUE, ![r].pageCount = pages,
                                ![r].body = body]
        /\ Reply(r, BadRequest("Could not extract text from the document"))
        /\ UNCHANGED <<files, hist>>
     \/ \E pages \in GuestPageCounts, body \in GuestRequestedSizes :
          LET rq == [req[r] EXCEPT !.pageCount = pages, !.body = body] IN
          IF GuestTooLarge(pages)
            THEN /\ files' = Unlink(files, req[r].file)
                 /\ req' = [req EXCEPT ![r] = rq]
                 /\ Reply(r, [BadRequest("Document too large for guest users")
                                EXCEPT !.pageCount = pages, !.maxPages = 2])
                 /\ UNCHANGED hist
            ELSE /\ req' = [req EXCEPT ![r] = [rq EXCEPT !.summarySize =
                                                  GuestSummarySize(body)]]
                 /\ pc' = [pc EXCEPT ![r] = "generateSummary"]
                 /\ hist' = [hist EXCEPT ![r].summarizerCalls = @ + 1,
                                         ![r].sumTier = GuestSummarySize(body)]
                 /\ UNCHANGED <<files, resp>>
  /\ UNCHANGED <<now, subscription, usages, documents, started, successes, photos, worker,
                 ledgerFailures, callers, probe>>

\* The guest handler persisting its summary as the authenticated one does.
GuestSummarize_Persists(r) ==
  /\ pc[r] = "generateSummary"
  /\ req[r].kind = "guest"
  /\ \/ /\ files' = Unlink(files, req[r].file)
        /\ documents' = documents (+) SetToBag({[userId |-> "guest",
                                                 summarySize |-> req[r].summarySize]})
        /\ Reply(r, [NoResp EXCEPT !.status = 200,
                                   !.summarySize = req[r].summarySize,
                                   !.pageCount = req[r].pageCount])
        /\ UNCHANGED req
     \/ \E error \in UpstreamErrors :
          /\ files' = Unlink(files, req[r].file)
          /\ req' = [req EXCEPT ![r] = LeaveTry(@)]
          /\ Reply(r, ServerError(UpstreamMessage(error)))
          /\ UNCHANGED documents
  /\ UNCHANGED <<now, subscription, usages, hist, started, successes, photos, worker,
                 ledgerFailures, callers, probe>>

\* await generateSummary(documentData.text, summarySize) in the guest handler.
GuestSummarize(r) ==
  /\ pc[r] = "generateSummary"
  /\ req[r].kind = "guest"
  /\ \/ /\ files' = Unlink(files, req[r].file)
        /\ Reply(r, [NoResp EXCEPT !.status = 200,
                                   !.summarySize = req[r].summarySize,
                                   !.pageCount = req[r].pageCount])
        /\ UNCHANGED req
     \/ \E error \in UpstreamErrors :
          /\ files' = Unlink(files, req[r].file)
          /\ req' = [req EXCEPT ![r] = LeaveTry(@)]
          /\ Reply(r, ServerError(UpstreamMessage(error)))
  /\ UNCHANGED <<now, subscription, usages, documents, hist, started, successes, photos, worker,
                 ledgerFailures, callers, probe>>

\* The response has gone out; the slot takes the next request.
Finish(r) ==
  /\ pc[r] = "done"
  /\ pc' = [pc EXCEPT ![r] = "idle"]
  /\ req' = [req EXCEPT ![r] = NoReq]
  /\ resp' = [resp EXCEPT ![r] = NoResp]
  /\ hist' = [hist EXCEPT ![r] = NoHist]
  /\ UNCHANGED <<now, subscription, usages, documents, files, started, successes, photos, worker,
                 ledgerFailures, callers, probe>>

(* ------------------------------ behaviours ----------------------------- *)

Plans == {"free", "premium", "pro"}

Callers == 1..MaxCallers

\* The stores after `prior` one-page short summaries of user u1, who is then on
\* the free plan, this month.
InitWith(prior) ==
  /\ now = [year |-> 2024, month |-> 0]
  /\ subscription \in [Users -> IF prior = 0 THEN Plans \cup {"none"} ELSE {"free"}]
  /\ usages = IF prior = 0 THEN <<>>
              ELSE <<[userId |-> "u1", month |-> getCurrentMonth(now),
                      documentCount |-> prior, pageCount |-> prior]>>
  /\ documents = IF prior = 0 THEN EmptyBag
                 ELSE [d \in {[userId |-> "u1", summarySize |-> "short"]} |-> prior]
  /\ files = {}
  /\ pc = [r \in Slots |-> "idle"]
  /\ req = [r \in Slots |-> NoReq]
  /\ resp = [r \in Slots |-> NoResp]
  /\ hist = [r \in Slots |-> NoHist]
  /\ started = 0
  /\ successes = prior
  /\ photos = <<>>
  /\ worker = NoWorker
  /\ ledgerFailures = 0
  /\ callers = [c \in Callers |-> NoCaller]
  /\ probe = NoProbe

Init == \E prior \in {0, PriorDocuments} : InitWith(prior)

InitSeq == InitWith(0)

Next ==
  \E r \in Slots :
    \/ StartAuth(r)
    \/ StartGuest(r)
    \/ CheckSubscription(r)
    \/ GetCurrentUsage(r)
    \/ CanUploadDocument(r)
    \/ Upload(r)
    \/ AuthExtract(r)
    \/ AuthSummarize(r)
    \/ AuthSave(r)
    \/ AuthIncrement(r)
    \/ AuthUpsertInsert(r)
    \/ GuestExtract(r)
    \/ GuestSummarize(r)
    \/ Finish(r)

Spec == Init /\ [][Next]_vars

\* Non-overlapping requests, from an empty ledger.
NextSeq ==
  \E r \in Slots :
    \/ StartAuthAlone(r)
    \/ StartGuestAlone(r)
    \/ CheckSubscription(r)
    \/ GetCurrentUsage(r)
    \/ CanUploadDocument(r)
    \/ Upload(r)
    \/ AuthExtract(r)
    \/ AuthSummarize(r)
    \/ AuthSave(r)
    \/ AuthIncrement(r)
    \/ AuthUpsertInsert(r)
    \/ GuestExtract(r)
    \/ GuestSummarize(r)
    \/ Finish(r)

SpecSeq == InitSeq /\ [][NextSeq]_vars

(* ------------- Usage.incrementUsage called directly, K at once ---------- *)

\* findOneAndUpdate({ userId, month }, { $inc }, { upsert: true }): the record
\* is found and incremented, or none is found and an insert follows; any error
\* other than 11000 is rethrown to the caller.
CallerFindOneAndUpdate(c) ==
  /\ callers[c].pc = "call"
  /\ LET m == getCurrentMonth(now) IN
     \/ /\ Found(usages, "u1", m)
        /\ usages' = IncExisting(usages, "u1", m, callers[c].pageCount)
        /\ callers' = [callers EXCEPT ![c].pc = "returned", ![c].applied = @ + 1]
     \/ /\ ~Found(usages, "u1", m)
        /\ callers' = [callers EXCEPT ![c].pc = "insert"]
        /\ UNCHANGED usages
     \/ /\ callers' = [callers EXCEPT ![c].pc = "threw", ![c].error = "other"]
        /\ UNCHANGED usages
  /\ UNCHANGED <<now, subscription, documents, files, pc, req, resp, hist, started,
                 successes, photos, worker, ledgerFailures, probe>>

\* The catch block rethrowing error 11000 like any other error.
CallerUpsertInsert_Rethrows(c) ==
  /\ callers[c].pc = "insert"
  /\ LET m == getCurrentMonth(now) IN
     \/ /\ UniqueIndexAdmits(usages, "u1", m)
        /\ usages' = InsertUsage(usages, "u1", m, callers[c].pageCount)
        /\ callers' = [callers EXCEPT ![c].pc = "returned", ![c].applied = @ + 1]
     \/ /\ ~UniqueIndexAdmits(usages, "u1", m)
        /\ callers' = [callers EXCEPT ![c].pc = "threw", ![c].error = "11000"]
        /\ UNCHANGED usages
  /\ UNCHANGED <<now, subscription, documents, files, pc, req, resp, hist, started,
                 successes, photos, worker, ledgerFailures, probe>>

\* The insert of the upsert; on error 11000 incrementUsage calls itself again.
CallerUpsertInsert(c) ==
  /\ callers[c].pc = "insert"
  /\ LET m == getCurrentMonth(now) IN
     \/ /\ UniqueIndexAdmits(usages, "u1", m)
        /\ usages' = InsertUsage(usages, "u1", m, callers[c].pageCount)
        /\ callers' = [callers EXCEPT ![c].pc = "returned", ![c].applied = @ + 1]
     \/ /\ ~UniqueIndexAdmits(usages, "u1", m)
        /\ callers' = [callers EXCEPT ![c].pc = "call", ![c].calls = @ + 1]
        /\ UNCHANGED usages
  /\ UNCHANGED <<now, subscription, documents, files, pc, req, resp, hist, started,
                 successes, photos, worker, ledgerFailures, probe>>

\* MaxCallers calls of Usage.incrementUsage("u1", p) issued together, no
\* UsageRecord existing for the month.
InitLedger ==
  /\ now = [year |-> 2024, month |-> 0]
  /\ subscription = [u \in Users |-> "none"]
  /\ usages = <<>>
  /\ documents = EmptyBag
  /\ files = {}
  /\ pc = [r \in Slots |-> "idle"]
  /\ req = [r \in Slots |-> NoReq]
  /\ resp = [r \in Slots |-> NoResp]
  /\ hist = [r \in Slots |-> NoHist]
  /\ started = 0
  /\ successes = 0
  /\ photos = <<>>
  /\ worker = NoWorker
  /\ ledgerFailures = 0
  /\ \E p \in LedgerPageCounts : callers = [c \in Callers |->
                     [NoCaller EXCEPT !.pc = "call", !.pageCount = p, !.calls = 1]]
  /\ probe = NoProbe

NextLedger ==
  \E c \in Callers :
    \/ CallerFindOneAndUpdate(c)
    \/ CallerUpsertInsert(c)

SpecLedger == InitLedger /\ [][NextLedger]_vars

\* Every call in progress is eventually resumed: the driver answers each
\* findOneAndUpdate, and the awaiting caller runs when it has.
FairLedger ==
  \A c \in Callers : WF_vars(CallerFindOneAndUpdate(c) \/ CallerUpsertInsert(c))

SpecLedgerFair == SpecLedger /\ FairLedger

(* ------ read side: Usage statics called directly, GET /billing/usage ----- *)

\* A direct call and what it returned.
Probe(op, userId, plan, currentUsage, limitCheck, limits) ==
  [op |-> op, userId |-> userId, plan |-> plan, currentUsage |-> currentUsage,
   limitCheck |-> limitCheck, limits |-> limits]

\* getCurrentUsage creating the month's record when it finds none.
CallGetCurrentUsage_Upserts ==
  /\ probe.op = "none"
  /\ \E u \in Users :
       LET m == getCurrentMonth(now) IN
       /\ probe' = Probe("getCurrentUsage", u, "unset", getCurrentUsage(usages, u, m),
                         NotExceeded, NoLimits)
       /\ usages' = IF Found(usages, u, m) THEN usages
                     ELSE Append(usages, [userId |-> u, month |-> m,
                                          documentCount |-> 0, pageCount |-> 0])
  /\ UNCHANGED <<now, subscription, documents, files, pc, req, resp, hist,
                 started, successes, photos, worker, ledgerFailures, callers>>

\* await Usage.getCurrentUsage(userId)
CallGetCurrentUsage ==
  /\ probe.op = "none"
  /\ \E u \in Users :
       probe' = Probe("getCurrentUsage", u, "unset",
                      getCurrentUsage(usages, u, getCurrentMonth(now)),
                      NotExceeded, NoLimits)
  /\ UNCHANGED <<now, subscription, usages, documents, files, pc, req, resp, hist,
                 started, successes, photos, worker, ledgerFailures, callers>>

\* await Usage.hasExceededLimit(userId, plan)
CallHasExceededLimit ==
  /\ probe.op = "none"
  /\ \E u \in Users, plan \in ProbePlans :
       probe' = Probe("hasExceededLimit", u, plan, NoUsage,
                      hasExceededLimit(usages, u, plan, getCurrentMonth(now)),
                      NoLimits)
  /\ UNCHANGED <<now, subscription, usages, documents, files, pc, req, resp, hist,
                 started, successes, photos, worker, ledgerFailures, callers>>

\* Usage.getLimits(plan)
CallGetLimits ==
  /\ probe.op = "none"
  /\ \E plan \in ProbePlans :
       probe' = Probe("getLimits", "none", plan, NoUsage, NotExceeded, getLimits(plan))
  /\ UNCHANGED <<now, subscription, usages, documents, files, pc, req, resp, hist,
                 started, successes, photos, worker, ledgerFailures, callers>>

\* GET /billing/usage: plan is subscription?.plan || 'free'; the answer carries
\* currentUsage, limits, hasExceeded, limitReason and plan, or 500 when a read throws.
GetBillingUsage ==
  /\ probe.op = "none"
  /\ \E u \in Users :
       LET plan == IF subscription[u] = "none" THEN "free" ELSE subscription[u]
           m == getCurrentMonth(now)
       IN \/ probe' = Probe("GET /billing/usage", u, plan,
                            getCurrentUsage(usages, u, m),
                            hasExceededLimit(usages, u, plan, m), getLimits(plan))
          \/ probe' = Probe("GET /billing/usage failed", u, "unset", NoUsage,
                            NotExceeded, NoLimits)
  /\ UNCHANGED <<now, subscription, usages, documents, files, pc, req, resp, hist,
                 started, successes, photos, worker, ledgerFailures, callers>>

\* The caller has its answer.
ProbeReturn ==
  /\ probe.op # "none"
  /\ probe' = NoProbe
  /\ UNCHANGED <<now, subscription, usages, documents, files, pc, req, resp, hist,
                 started, successes, photos, worker, ledgerFailures, callers>>

\* A request that is followed through checkSubscription and canUploadDocument.
StartGate(r) == Begin(r, "auth", MaxGateRuns)

\* The ledger holds nothing, or last month's record, or this month's, or both.
InitCalls ==
  /\ now = [year |-> 2024, month |-> 0]
  /\ subscription \in [Users -> Plans \cup {"none"}]
  /\ \E old \in {<<>>, <<[userId |-> "u1",
                          month |-> getCurrentMonth([year |-> 2023, month |-> 11]),
                          documentCount |-> 5, pageCount |-> 100]>>} :
       \/ usages = old
       \/ \E d \in ProbeDocumentCounts, p \in ProbePageCounts :
            usages = old \o <<[userId |-> "u1", month |-> getCurrentMonth(now),
                               documentCount |-> d, pageCount |-> p]>>
  /\ documents = EmptyBag
  /\ files = {}
  /\ pc = [r \in Slots |-> "idle"]
  /\ req = [r \in Slots |-> NoReq]
  /\ resp = [r \in Slots |-> NoResp]
  /\ hist = [r \in Slots |-> NoHist]
  /\ started = 0
  /\ successes = 0
  /\ photos = <<>>
  /\ worker = NoWorker
  /\ ledgerFailures = 0
  /\ callers = [c \in Callers |-> NoCaller]
  /\ probe = NoProbe

NextCalls ==
  \/ CallGetCurrentUsage
  \/ CallHasExceededLimit
  \/ CallGetLimits
  \/ GetBillingUsage
  \/ ProbeReturn
  \/ \E r \in Slots :
       \/ StartGate(r)
       \/ CheckSubscription(r)
       \/ GetCurrentUsage(r)
       \/ CanUploadDocument(r)
       \/ Finish(r)

SpecCalls == InitCalls /\ [][NextCalls]_vars

(* ------------------- processDocument called directly ------------------- *)

\* The texts: a text without words has no separate trailing whitespace.
Texts ==
  {Text(lead, words, trail) : lead \in BOOLEAN, words \in WordCounts, trail \in BOOLEAN}
    \ {Text(lead, 0, TRUE) : lead \in BOOLEAN}

\* How far the parser of the format gets with the file.
ParseOutcomes(ext) ==
  CASE ext \in {".pdf", ".docx"} -> {"ok", "unopenable"}
    [] ext = ".odt" -> {"ok", "unopenable", "no_content_xml", "bad_xml"}
    [] OTHER -> {"ok"}

\* An uploaded file: extension of its original name, whether fs.readFileSync
\* can read it, its bytes read as utf8 (raw), and the text its parser finds in it
\* (parsed) with the page number pdf-parse reports.
UploadedFiles ==
  {[ext |-> ext, readable |-> readable, parse |-> parse, raw |-> raw,
    parsed |-> parsed, numpages |-> numpages] :
     ext \in Extensions, readable \in BOOLEAN,
     parse \in {"ok", "unopenable", "no_content_xml", "bad_xml"},
     raw \in Texts, parsed \in {t \in Texts : ~t.trail}, numpages \in PdfPageCounts}

\* The files that can exist: an unreadable file cannot be parsed, a text format
\* has no parser and its parsed text is its raw text, only a PDF has numpages.
PossibleFile(f) ==
  /\ f.parse \in ParseOutcomes(f.ext)
  /\ (~f.readable /\ f.ext \in {".pdf", ".docx", ".odt"}) => f.parse = "unopenable"
  /\ f.ext \in {".txt", ".exe"} => f.parsed = Trim(f.raw)
  /\ f.ext \in {".pdf", ".docx", ".rtf"} => f.raw = Text(FALSE, 1, FALSE)
  /\ f.ext # ".pdf" => f.numpages = 1
  /\ f.parse # "ok" => f.parsed = Text(FALSE, 0, FALSE)

\* processDocument(filePath, originalName) returns or throws.
ProcessDocumentCall ==
  /\ probe.op = "processDocument"
  /\ probe.result = Pending
  /\ probe' = [probe EXCEPT !.result = processDocument(probe.file)]
  /\ UNCHANGED <<now, subscription, usages, documents, files, pc, req, resp, hist,
                 started, successes, photos, worker, ledgerFailures, callers>>

InitExtract ==
  /\ now = [year |-> 2024, month |-> 0]
  /\ subscription = [u \in Users |-> "none"]
  /\ usages = <<>>
  /\ documents = EmptyBag
  /\ files = {}
  /\ pc = [r \in Slots |-> "idle"]
  /\ req = [r \in Slots |-> NoReq]
  /\ resp = [r \in Slots |-> NoResp]
  /\ hist = [r \in Slots |-> NoHist]
  /\ started = 0
  /\ successes = 0
  /\ photos = <<>>
  /\ worker = NoWorker
  /\ ledgerFailures = 0
  /\ callers = [c \in Callers |-> NoCaller]
  /\ \E f \in UploadedFiles :
       /\ PossibleFile(f)
       /\ probe = [op |-> "processDocument", file |-> f, result |-> Pending]

NextExtract == ProcessDocumentCall

SpecExtract == InitExtract /\ [][NextExtract]_vars

(* ------------------- the ledger across calendar months ------------------ *)

\* Months since year 0 of a clock value.
MonthNumber(t) == t.year * 12 + t.month

StartOfCalendar == [year |-> 2024, month |-> 8]

\* new Date() falls in the next calendar month.
Tick ==
  /\ probe.op = "none"
  /\ MonthNumber(now) < MonthNumber(StartOfCalendar) + MaxTicks
  /\ now' = IF now.month = 11 THEN [year |-> now.year + 1, month |-> 0]
                              ELSE [now EXCEPT !.month = @ + 1]
  /\ UNCHANGED <<subscription, usages, documents, files, pc, req, resp, hist,
                 started, successes, photos, worker, ledgerFailures, callers, probe>>

\* await Usage.incrementUsage(userId, pageCount), no other call in progress:
\* the upsert increments the month's record or inserts it, or the call throws.
CallIncrementUsage ==
  /\ probe.op = "none"
  /\ started < MaxIncrements
  /\ started' = started + 1
  /\ \E u \in Users, p \in MonthPageCounts :
       LET m == getCurrentMonth(now) IN
       \/ /\ usages' = IF Found(usages, u, m) THEN IncExisting(usages, u, m, p)
                        ELSE InsertUsage(usages, u, m, p)
          /\ probe' = Probe("incrementUsage", u, "unset",
                            getCurrentUsage(usages', u, m), NotExceeded, NoLimits)
       \/ /\ probe' = Probe("incrementUsage threw", u, "unset", NoUsage,
                            NotExceeded, NoLimits)
          /\ UNCHANGED usages
  /\ UNCHANGED <<now, subscription, documents, files, pc, req, resp, hist,
                 successes, photos, worker, ledgerFailures, callers>>

InitMonths ==
  /\ now = StartOfCalendar
  /\ subscription = [u \in Users |-> "free"]
  /\ usages = <<>>
  /\ documents = EmptyBag
  /\ files = {}
  /\ pc = [r \in Slots |-> "idle"]
  /\ req = [r \in Slots |-> NoReq]
  /\ resp = [r \in Slots |-> NoResp]
  /\ hist = [r \in Slots |-> NoHist]
  /\ started = 0
  /\ successes = 0
  /\ photos = <<>>
  /\ worker = NoWorker
  /\ ledgerFailures = 0
  /\ callers = [c \in Callers |-> NoCaller]
  /\ probe = NoProbe

NextMonths ==
  \/ Tick
  \/ CallIncrementUsage
  \/ CallGetCurrentUsage
  \/ CallHasExceededLimit
  \/ ProbeReturn

SpecMonths == InitMonths /\ [][NextMonths]_vars

(* ----------------- generateSummary failing, two requests ---------------- *)

\* The i-th of two calls of generateSummary throws, and the catch block of
\* /api/process-document answers 500 with the message as details.
UpstreamFailure ==
  /\ probe.op = "generateSummary"
  /\ \E i \in {1, 2} :
       /\ probe.responses[i] = NoResp
       /\ probe' = [probe EXCEPT !.responses[i] =
                      ServerError(UpstreamMessage(probe.errors[i]))]
  /\ UNCHANGED <<now, subscription, usages, documents, files, pc, req, resp, hist,
                 started, successes, photos, worker, ledgerFailures, callers>>

InitUpstream ==
  /\ now = [year |-> 2024, month |-> 0]
  /\ subscription = [u \in Users |-> "free"]
  /\ usages = <<>>
  /\ documents = EmptyBag
  /\ files = {}
  /\ pc = [r \in Slots |-> "idle"]
  /\ req = [r \in Slots |-> NoReq]
  /\ resp = [r \in Slots |-> NoResp]
  /\ hist = [r \in Slots |-> NoHist]
  /\ started = 0
  /\ successes = 0
  /\ photos = <<>>
  /\ worker = NoWorker
  /\ ledgerFailures = 0
  /\ callers = [c \in Callers |-> NoCaller]
  /\ \E e1 \in UpstreamErrors, e2 \in UpstreamErrors :
       probe = [op |-> "generateSummary", errors |-> <<e1, e2>>,
                responses |-> <<NoResp, NoResp>>]

NextUpstream == UpstreamFailure

SpecUpstream == InitUpstream /\ [][NextUpstream]_vars

(* ------------- document history: GET /api/documents, /auth/documents ---- *)

\* A user other than the one sending the requests, owner of earlier Documents.
OtherUser == "u2"

\* The Documents of bag docs whose userId is userId.
OwnedBy(docs, userId) ==
  LET own == {d \in BagToSet(docs) : d.userId = userId}
  IN [d \in own |-> docs[d]]

\* Document.find({ userId }).sort({ createdAt: -1 }).limit(n): all the user's
\* Documents when there are at most n, else the n most recent, which the
\* collection modelled as a bag does not order: any n of them.
FindDocuments(userId, n) ==
  LET own == OwnedBy(documents, userId)
  IN IF BagCardinality(own) <= n THEN {own}
     ELSE {b \in SubBag(own) : BagCardinality(b) = n}

\* The history answered without the userId filter: Document.find({}).
ListDocuments_Unfiltered ==
  /\ probe.op = "none"
  /\ \E u \in Users :
       probe' = [op |-> "GET /api/documents", userId |-> u, status |-> 200,
                 documents |-> documents]
  /\ UNCHANGED <<now, subscription, usages, documents, files, pc, req, resp, hist,
                 started, successes, photos, worker, ledgerFailures, callers>>

\* GET /api/documents: the last 5 Documents of a free user (or of one without
\* subscription), the last 50 of the others; 500 when a query throws.
ListDocuments ==
  /\ probe.op = "none"
  /\ \E u \in Users :
       LET plan == IF subscription[u] = "none" THEN "free" ELSE subscription[u]
           documentLimit == IF plan = "free" THEN FreeHistory ELSE PaidHistory
       IN \/ \E found \in FindDocuments(u, documentLimit) :
               probe' = [op |-> "GET /api/documents", userId |-> u, status |-> 200,
                         documents |-> found]
          \/ probe' = [op |-> "GET /api/documents", userId |-> u, status |-> 500,
                       documents |-> EmptyBag]
  /\ UNCHANGED <<now, subscription, usages, documents, files, pc, req, resp, hist,
                 started, successes, photos, worker, ledgerFailures, callers>>

\* GET /auth/documents: the last 50 Documents of the user.
ListAuthDocuments ==
  /\ probe.op = "none"
  /\ \E u \in Users :
       \/ \E found \in FindDocuments(u, AuthHistory) :
            probe' = [op |-> "GET /auth/documents", userId |-> u, status |-> 200,
                      documents |-> found]
       \/ probe' = [op |-> "GET /auth/documents", userId |-> u, status |-> 500,
                    documents |-> EmptyBag]
  /\ UNCHANGED <<now, subscription, usages, documents, files, pc, req, resp, hist,
                 started, successes, photos, worker, ledgerFailures, callers>>

StartUpload(r) == Begin(r, "auth", MaxDocRequests)

\* The other user has processed two documents before; the requesting user none.
InitDocs ==
  /\ now = [year |-> 2024, month |-> 0]
  /\ subscription \in [Users -> Plans \cup {"none"}]
  /\ usages = <<[userId |-> OtherUser, month |-> getCurrentMonth(now),
                 documentCount |-> 2, pageCount |-> 2]>>
  /\ documents = SetToBag({[userId |-> OtherUser, summarySize |-> "short"],
                           [userId |-> OtherUser, summarySize |-> "long"]})
  /\ files = {}
  /\ pc = [r \in Slots |-> "idle"]
  /\ req = [r \in Slots |-> NoReq]
  /\ resp = [r \in Slots |-> NoResp]
  /\ hist = [r \in Slots |-> NoHist]
  /\ started = 0
  /\ successes = 0
  /\ photos = <<>>
  /\ worker = NoWorker
  /\ ledgerFailures = 0
  /\ callers = [c \in Callers |-> NoCaller]
  /\ probe = NoProbe

NextDocs ==
  \/ ListDocuments
  \/ ListAuthDocuments
  \/ ProbeReturn
  \/ \E r \in Slots :
       \/ StartUpload(r)
       \/ CheckSubscription(r)
       \/ GetCurrentUsage(r)
       \/ CanUploadDocument(r)
       \/ Upload(r)
       \/ AuthExtract(r)
       \/ AuthSummarize(r)
       \/ AuthSave(r)
       \/ AuthIncrement(r)
       \/ AuthUpsertInsert(r)
       \/ Finish(r)

SpecDocs == InitDocs /\ [][NextDocs]_vars

(* ---- photo batch: POST /api/process-photos, worker, GET results ---------- *)

\* new Photo({ ..., processingOrder: i + 1 }): processingStatus defaults to
\* pending, extractedText and errorMessage to ''.
Photo(order) ==
  [processingOrder |-> order, processingStatus |-> "pending",
   extractedText |-> "", errorMessage |-> ""]

PhotoResponse(op, status, total, text) ==
  [op |-> op, status |-> status, total |-> total, organizedText |-> text]

\* POST /api/process-photos with n valid or invalid files, by a user whose
\* subscription checkSubscription has read (creating a free one if there is none):
\* 403 unless the plan is pro; the Photo records are saved one by one, the
\* handler returning 400 at the first invalid file and 500 when a save throws,
\* with the records saved so far left behind; after the last save the worker is
\* started and the batch is answered 200.
ProcessPhotos ==
  /\ started = 0
  /\ probe.op = "none"
  /\ started' = 1
  /\ \E u \in Users :
       LET plan == IF subscription[u] = "none" THEN "free" ELSE subscription[u] IN
       /\ subscription' = [subscription EXCEPT ![u] = plan]
       /\ \/ /\ probe' = PhotoResponse("POST /api/process-photos", 400, 0, <<>>)
             /\ UNCHANGED <<photos, worker>>
          \/ /\ plan # "pro"
             /\ probe' = PhotoResponse("POST /api/process-photos", 403, 0, <<>>)
             /\ UNCHANGED <<photos, worker>>
          \/ /\ plan = "pro"
             /\ \E n \in 1..MaxPhotos :
                  \/ /\ photos' = [i \in 1..n |-> Photo(i)]
                     /\ worker' = [pc |-> "markProcessing", i |-> 1, result |-> "none"]
                     /\ probe' = PhotoResponse("POST /api/process-photos", 200, n, <<>>)
                  \/ \E k \in 1..n, status \in {400, 500} :
                       /\ photos' = [i \in 1..(k - 1) |-> Photo(i)]
                       /\ probe' = PhotoResponse("POST /api/process-photos", status,
                                                 0, <<>>)
                       /\ UNCHANGED worker
  /\ UNCHANGED <<now, usages, documents, files, pc, req, resp, hist, successes,
                 ledgerFailures, callers>>

\* The loop of processPhotosInBackground goes on to the next photo, or ends.
NextPhoto(w) ==
  IF w.i < Len(photos)
    THEN [pc |-> "markProcessing", i |-> w.i + 1, result |-> "none"]
    ELSE [pc |-> "finished", i |-> w.i, result |-> "none"]

\* await Photo.findByIdAndUpdate(photo._id, { processingStatus: 'processing' }):
\* the record is updated, or the call throws into the catch block of the photo.
WorkerMarkProcessing ==
  /\ worker.pc = "markProcessing"
  /\ \/ /\ photos' = [photos EXCEPT ![worker.i].processingStatus = "processing"]
        /\ worker' = [worker EXCEPT !.pc = "processImage"]
     \/ /\ worker' = [worker EXCEPT !.pc = "catch"]
        /\ UNCHANGED photos
  /\ UNCHANGED <<now, subscription, usages, documents, files, pc, req, resp, hist,
                 started, successes, ledgerFailures, callers, probe>>

\* testImageProcessability, imageToBase64 and processImage: none of them throws;
\* the image cannot be processed, or processImage returns success with the
\* extracted text, or it returns its error.
WorkerProcessImage ==
  /\ worker.pc = "processImage"
  /\ \/ worker' = [worker EXCEPT !.pc = "store", !.result = "unprocessable"]
     \/ \E text \in PhotoTexts :
          worker' = [worker EXCEPT !.pc = "store", !.result = text]
     \/ worker' = [worker EXCEPT !.pc = "store", !.result = "error"]
  /\ UNCHANGED <<now, subscription, usages, documents, files, pc, req, resp, hist,
                 started, successes, photos, ledgerFailures, callers, probe>>

\* await Photo.findByIdAndUpdate with the outcome: completed and the text, or
\* failed and the error; then the next photo. The call may throw into the catch
\* block of the photo.
WorkerStore ==
  /\ worker.pc = "store"
  /\ \/ /\ worker.result \in PhotoTexts
        /\ photos' = [photos EXCEPT ![worker.i].processingStatus = "completed",
                                    ![worker.i].extractedText = worker.result]
        /\ worker' = NextPhoto(worker)
     \/ /\ worker.result \notin PhotoTexts
        /\ photos' = [photos EXCEPT ![worker.i].processingStatus = "failed",
                                    ![worker.i].errorMessage = worker.result]
        /\ worker' = NextPhoto(worker)
     \/ /\ worker' = [worker EXCEPT !.pc = "catch", !.result = "none"]
        /\ UNCHANGED photos
  /\ UNCHANGED <<now, subscription, usages, documents, files, pc, req, resp, hist,
                 started, successes, ledgerFailures, callers, probe>>

\* The catch block of the photo: await Photo.findByIdAndUpdate(..., failed), then
\* the next photo; when this call throws, the error leaves the loop and the
\* outer catch block logs it: the worker is over.
WorkerCatch ==
  /\ worker.pc = "catch"
  /\ \/ /\ photos' = [photos EXCEPT ![worker.i].processingStatus = "failed",
                                    ![worker.i].errorMessage = "error"]
        /\ worker' = NextPhoto(worker)
     \/ /\ worker' = [worker EXCEPT !.pc = "aborted"]
        /\ UNCHANGED photos
  /\ UNCHANGED <<now, subscription, usages, documents, files, pc, req, resp, hist,
                 started, successes, ledgerFailures, callers, probe>>

\* joinTextFromPhotos: the completed photos that have text, in the order given.
joinTextFromPhotos(ps) ==
  LET withText == {i \in 1..Len(ps) : /\ ps[i].processingStatus = "completed"
                                      /\ ps[i].extractedText # ""}
  IN IF withText = {} THEN <<0>>   \* 'No text was found in any of the uploaded images.' 
     ELSE SelectSeq([i \in 1..Len(ps) |-> i], LAMBDA i : i \in withText)

\* GET /api/photos/results/:batchId: 404 without photos, 400 unless every photo
\* is completed, else the joined text; 500 when Photo.find throws.
GetPhotoResults ==
  /\ probe.op = "none"
  /\ \/ probe' = PhotoResponse("GET /api/photos/results", 500, 0, <<>>)
     \/ probe' =
          IF Len(photos) = 0
            THEN PhotoResponse("GET /api/photos/results", 404, 0, <<>>)
          ELSE IF \E i \in 1..Len(photos) : photos[i].processingStatus # "completed"
            THEN PhotoResponse("GET /api/photos/results", 400, 0, <<>>)
          ELSE PhotoResponse("GET /api/photos/results", 200, Len(photos),
                             joinTextFromPhotos(photos))
  /\ UNCHANGED <<now, subscription, usages, documents, files, pc, req, resp, hist,
                 started, successes, photos, worker, ledgerFailures, callers>>

InitPhotos ==
  /\ now = [year |-> 2024, month |-> 0]
  /\ subscription \in [Users -> Plans \cup {"none"}]
  /\ usages = <<>>
  /\ documents = EmptyBag
  /\ files = {}
  /\ pc = [r \in Slots |-> "idle"]
  /\ req = [r \in Slots |-> NoReq]
  /\ resp = [r \in Slots |-> NoResp]
  /\ hist = [r \in Slots |-> NoHist]
  /\ started = 0
  /\ successes = 0
  /\ photos = <<>>
  /\ worker = NoWorker
  /\ ledgerFailures = 0
  /\ callers = [c \in Callers |-> NoCaller]
  /\ probe = NoProbe

WorkerStep ==
  \/ WorkerMarkProcessing
  \/ WorkerProcessImage
  \/ WorkerStore
  \/ WorkerCatch

NextPhotos ==
  \/ ProcessPhotos
  \/ WorkerMarkProcessing
  \/ WorkerProcessImage
  \/ WorkerStore
  \/ WorkerCatch
  \/ GetPhotoResults
  \/ ProbeReturn

SpecPhotos == InitPhotos /\ [][NextPhotos]_vars

\* The worker is an async function: each of its awaits is resumed when the
\* awaited call has settled.
FairPhotos == WF_vars(WorkerStep)

SpecPhotosFair == SpecPhotos /\ FairPhotos

(* ------------------------------- claims -------------------------------- *)

ThisMonth == getCurrentMonth(now)

CurrentUsage(u) == getCurrentUsage(usages, u, ThisMonth)

\* Number of Document records owned by u.
Documents(u) ==
  LET own == {d \in BagToSet(documents) : d.userId = u}
  IN BagCardinality([d \in own |-> documents[d]])

UpstreamMessages == {UpstreamMessage(error) : error \in UpstreamErrors}

UpstreamFailed(r) == resp[r].status = 500 /\ resp[r].details \in UpstreamMessages

\* C1: for a user on a finite plan, whatever the interleaving of that user's
\* uploads, the period's documentCount never exceeds the plan's document limit
\* (and no more than that many requests succeed).
C1_LimitUnderInterleaving ==
  \A u \in Users :
    subscription[u] \in {"free", "premium"} =>
      /\ CurrentUsage(u).documentCount <= getLimits(subscription[u]).documents
      /\ ledgerFailures = 0 => successes <= getLimits(subscription[u]).documents

\* C2: K concurrent Usage.incrementUsage(userId, p) calls that start with no
\* record for the month leave exactly one record, and it counts every call that
\* has returned: documentCount = K and pageCount = K * p once all K returned.
C2_NoLostUpdate ==
  LET returned == {c \in Callers : callers[c].pc = "returned"}
      p == callers[1].pageCount
  IN /\ Len(usages) <= 1
     /\ CurrentUsage("u1").documentCount = Cardinality(returned)
     /\ CurrentUsage("u1").pageCount = Cardinality(returned) * p
     /\ returned = Callers =>
          /\ Len(usages) = 1
          /\ usages[1].documentCount = MaxCallers
          /\ usages[1].pageCount = MaxCallers * p

\* Every caller has returned.
C2_Witness == \A c \in Callers : callers[c].pc = "returned"

\* C3 as stated: in every quiescent state the documentCount of the period, the
\* number of Documents persisted and the number of success responses are equal,
\* also in runs in which Document.save or Usage.incrementUsage fails.
C3_CountEqualsDocuments ==
  NoneInFlight =>
    \A u \in Users :
      /\ CurrentUsage(u).documentCount = Documents(u)
      /\ Documents(u) = successes

\* C3 amended: in every quiescent state the number of Documents persisted equals
\* the number of success responses, and documentCount is that number less the
\* requests whose Usage.incrementUsage threw.
C3_CountEqualsDocumentsLessFailures ==
  NoneInFlight =>
    \A u \in Users :
      /\ Documents(u) = successes
      /\ CurrentUsage(u).documentCount = successes - ledgerFailures

\* A quiescent state after two successes, the ledger write of one having failed.
C3_Witness ==
  /\ NoneInFlight
  /\ ledgerFailures = 1
  /\ successes = 2

\* C4: an authenticated request whose generateSummary call failed has written
\* nothing to the usage ledger and persisted no Document.
C4_NoWriteOnUpstreamFailure ==
  \A r \in Slots :
    (req[r].kind = "auth" /\ UpstreamFailed(r)) =>
      /\ hist[r].writes = 0
      /\ hist[r].saved = "none"

\* An authenticated request answered 500 for an exhausted OpenAI quota.
C4_Witness ==
  \E r \in Slots :
    /\ req[r].kind = "auth"
    /\ resp[r].status = 500
    /\ resp[r].details = "OpenAI API quota exceeded"

\* C5: once multer has stored the upload, the file is gone from the uploads
\* directory when the handler has answered, on every exit path.
C5_FileRemovedOnEveryExit ==
  \A r \in Slots :
    (pc[r] = "done" /\ hist[r].stored) => req[r].file \notin files

PastGate(r) ==
  /\ req[r].kind = "auth"
  /\ pc[r] \in {"upload", "processDocument", "generateSummary", "save",
                "incrementUsage", "upsertInsert"}

Denied(r) == req[r].kind = "auth" /\ resp[r].status = 403

\* C6 as stated: under non-overlapping requests a free-plan user with no prior
\* usage has exactly 5 successful documents when the document limit denies an
\* attempt, the denial is made with document_limit and reports current = 5 and
\* limit = 5, the ledger stays at 5, and no attempt is admitted once 5 have
\* succeeded.
C6_FiveThenDenied ==
  \A r \in Slots :
    req[r].plan = "free" =>
      /\ CurrentUsage(req[r].user).documentCount <= 5
      /\ PastGate(r) => successes < 5
      /\ Denied(r) =>
           /\ successes = 5
           /\ resp[r].reason = "document_limit"
           /\ resp[r].currentUsage.documentCount = 5
           /\ resp[r].limits.documents = 5
           /\ CurrentUsage(req[r].user).documentCount = 5

\* C7: a 403 of canUploadDocument carries the reason hasExceededLimit returned
\* (document_limit or page_limit), a message citing that limit, and the current
\* usage and limit values that triggered the denial.
C7_DenialCarriesTrigger ==
  \A r \in Slots :
    Denied(r) =>
      /\ resp[r].reason \in {"document_limit", "page_limit"}
      /\ resp[r].reason = req[r].usage.limitReason
      /\ resp[r].message.cites =
           (IF resp[r].reason = "document_limit" THEN "documents" ELSE "pages")
      /\ resp[r].message.processed >= resp[r].message.limit

GuestDone(r) == req[r].kind = "guest" /\ pc[r] = "done"

TooLarge(r) == resp[r].error = "Document too large for guest users"

\* C9 as stated: a guest request whose extracted pageCount exceeds 2 is denied as
\* too large, reporting the pageCount and maxPages 2, with no summarizer call and
\* no ledger access; one with pageCount <= 2 and text is not denied for size.
C9_GuestCeiling ==
  \A r \in Slots :
    GuestDone(r) =>
      /\ req[r].pageCount > 2 =>
           /\ TooLarge(r)
           /\ resp[r].status = 400
           /\ resp[r].pageCount = req[r].pageCount
           /\ resp[r].maxPages = 2
           /\ hist[r].summarizerCalls = 0
           /\ hist[r].reads = 0
           /\ hist[r].writes = 0
      /\ TooLarge(r) => req[r].pageCount > 2

\* C9 amended: the same for a guest request whose extracted text is not empty
\* (the empty-text check comes first and answers "Could not extract text").
C9_GuestCeilingWithText ==
  \A r \in Slots :
    GuestDone(r) =>
      /\ (req[r].pageCount > 2 /\ ~req[r].textEmpty) =>
           /\ TooLarge(r)
           /\ resp[r].status = 400
           /\ resp[r].pageCount = req[r].pageCount
           /\ resp[r].maxPages = 2
           /\ hist[r].summarizerCalls = 0
           /\ hist[r].reads = 0
           /\ hist[r].writes = 0
      /\ TooLarge(r) => req[r].pageCount > 2

\* A three-page guest document denied as too large.
C9_Witness ==
  \E r \in Slots :
    /\ GuestDone(r)
    /\ TooLarge(r)
    /\ resp[r].pageCount = 3
    /\ resp[r].maxPages = 2

\* C10: on the guest path generateSummary is called with short and the response
\* reports short, whatever summarySize the request carried.
C10_GuestAlwaysShort ==
  \A r \in Slots :
    req[r].kind = "guest" =>
      /\ hist[r].sumTier \in {"none", "short"}
      /\ resp[r].status = 200 => resp[r].summarySize = "short"

\* A guest request that asked for long and was answered with a summary.
C10_Witness ==
  \E r \in Slots :
    /\ req[r].kind = "guest"
    /\ req[r].body = "long"
    /\ hist[r].sumTier = "short"
    /\ resp[r].status = 200

\* C11: no step of a guest request, on any path of the guest endpoint, changes
\* the Document collection or the usage ledger, and a guest request never reads
\* the ledger.
C11_GuestLeavesStoresAlone ==
  [][\A r \in Slots :
       ((req[r].kind = "guest" \/ req'[r].kind = "guest") /\ pc'[r] # pc[r]) =>
         /\ documents' = documents
         /\ usages' = usages
         /\ hist'[r].reads = 0
         /\ hist'[r].writes = 0
         /\ hist'[r].saved = "none"]_vars

\* A guest request answered with a summary while the ledger holds a record.
C11_Witness ==
  \E r \in Slots :
    /\ GuestDone(r)
    /\ resp[r].status = 200
    /\ usages # <<>>
    /\ documents # EmptyBag

\* C12: hasExceededLimit checks documents first, then pages: with documentCount
\* at or over the document limit it answers document_limit with the document
\* values, also when the pages are over too; it answers page_limit with the page
\* values exactly when documentCount is under its limit and pageCount is at or
\* over the page limit; otherwise exceeded is false.
C12_DocumentsThenPages ==
  (probe.op = "hasExceededLimit" /\ probe.plan \notin ObjectPrototypeNames) =>
    LET limit == ExceededLimits(probe.plan)
        usage == CurrentUsage(probe.userId)
        check == probe.limitCheck
    IN /\ usage.documentCount >= limit.documents =>
            /\ check.exceeded
            /\ check.reason = "document_limit"
            /\ check.current = usage.documentCount
            /\ check.limit = limit.documents
       /\ check.reason = "page_limit" <=>
            (usage.documentCount < limit.documents /\ usage.pageCount >= limit.pages)
       /\ check.reason = "page_limit" =>
            /\ check.exceeded
            /\ check.current = usage.pageCount
            /\ check.limit = limit.pages
       /\ (usage.documentCount < limit.documents /\ usage.pageCount < limit.pages) =>
            /\ ~check.exceeded
            /\ check.reason = "null"

\* Both limits of the free plan are exceeded and the answer is document_limit.
C12_Witness ==
  /\ probe.op = "hasExceededLimit"
  /\ probe.plan = "free"
  /\ CurrentUsage(probe.userId).documentCount >= 5
  /\ CurrentUsage(probe.userId).pageCount >= 100
  /\ probe.limitCheck.reason = "document_limit"

\* A step of checkSubscription, as run by the gate of request r.
GateReadStep(r) ==
  /\ pc[r] \in {"checkSubscription", "getCurrentUsage", "hasExceededLimit"}
  /\ pc'[r] # pc[r]

\* A direct call of getCurrentUsage or hasExceededLimit, or GET /billing/usage.
DirectReadStep == probe.op = "none" /\ probe'.op # "none"

Zeros == [documentCount |-> 0, pageCount |-> 0]

\* C13: getCurrentUsage, hasExceededLimit, checkSubscription and GET /billing/usage
\* leave the usage ledger as it was; for a user with no UsageRecord in the current
\* month the usage they report is {documentCount: 0, pageCount: 0} and there is
\* still no record afterwards.
C13_ReadsDoNotWrite ==
  [][/\ (DirectReadStep \/ \E r \in Slots : GateReadStep(r)) => usages' = usages
     /\ \A u \in Users :
          Matching(usages, u, ThisMonth) = {} =>
            /\ (DirectReadStep /\ probe'.userId = u) =>
                 /\ Matching(usages', u, ThisMonth) = {}
                 /\ probe'.op \in {"getCurrentUsage", "GET /billing/usage"} =>
                      probe'.currentUsage = Zeros
                 /\ probe'.op \in {"hasExceededLimit", "GET /billing/usage"} =>
                      ~probe'.limitCheck.exceeded
            /\ \A r \in Slots :
                 (GateReadStep(r) /\ req[r].user = u) =>
                   /\ Matching(usages', u, ThisMonth) = {}
                   /\ pc[r] = "getCurrentUsage" => req'[r].usage.current = Zeros
                   /\ pc[r] = "hasExceededLimit" => ~req'[r].usage.hasExceeded]_vars

\* getCurrentUsage has answered zeros for a user whose only record is last month's.
C13_Witness ==
  /\ probe.op = "getCurrentUsage"
  /\ probe.currentUsage = Zeros
  /\ usages # <<>>
  /\ Matching(usages, probe.userId, ThisMonth) = {}

\* C14: when Usage.incrementUsage throws in a request whose summary was
\* generated and whose Document was saved, that step answers the request with
\* the success response carrying the saved summary: no 4xx/5xx, no second call
\* of the summarizer, no second Document.
C14_LedgerFailureStillSuccess ==
  [][\A r \in Slots :
       (pc[r] = "incrementUsage" /\ pc'[r] # pc[r]
          /\ ledgerFailures' # ledgerFailures) =>
         /\ hist[r].saved # "none"
         /\ pc'[r] = "done"
         /\ resp'[r].status = 200
         /\ resp'[r].error = "none"
         /\ resp'[r].summarySize = hist[r].saved
         /\ hist'[r].summarizerCalls = 1
         /\ documents' = documents
         /\ successes' = successes + 1]_vars

\* A request answered 200 although its ledger write threw.
C14_Witness ==
  \E r \in Slots :
    /\ pc[r] = "done"
    /\ req[r].kind = "auth"
    /\ resp[r].status = 200
    /\ hist[r].saved # "none"
    /\ hist[r].writes = 0
    /\ ledgerFailures > 0

\* C15: the success response of an authenticated request whose increment was
\* applied carries the usage after that increment: with non-overlapping requests
\* its usage.current equals what the ledger holds when the response is sent.
C15_ResponseCarriesUpdatedUsage ==
  \A r \in Slots :
    (pc[r] = "done" /\ req[r].kind = "auth" /\ resp[r].status = 200
       /\ hist[r].writes = 1) =>
      /\ resp[r].usage.current = CurrentUsage(req[r].user)
      /\ resp[r].usage.current.documentCount >= 1

\* processDocument has returned for a file with extension ext.
Processed(ext) ==
  /\ probe.op = "processDocument"
  /\ probe.result # Pending
  /\ probe.file.ext = ext

\* The words of the text a TXT or DOCX file holds.
WordsOf(file) == IF file.ext = ".txt" THEN file.raw.words ELSE file.parsed.words

\* C16: for a DOCX or TXT file from which text is extracted, pageCount is
\* max(1, ceil(words / 500)) with words the number of words of the text, whatever
\* whitespace surrounds them; so below 500 words pageCount is 1.
C16_PageEstimate ==
  \A ext \in {".docx", ".txt"} :
    (Processed(ext) /\ probe.result.ok) =>
      /\ probe.result.pageCount = Max(1, Ceil(WordsOf(probe.file), 500))
      /\ WordsOf(probe.file) < 500 => probe.result.pageCount = 1

\* C17: for an .odt file whose archive cannot be opened, that has no content.xml
\* or whose XML does not parse, processDocument returns what plain-text
\* extraction of the raw file returns (its text and word-count page estimate);
\* processDocument fails for an .odt file only when the plain-text read fails.
C17_OdtFallsBackToPlainText ==
  Processed(".odt") =>
    /\ probe.file.parse # "ok" =>
         /\ probe.file.readable =>
              /\ probe.result.ok
              /\ probe.result.text = probe.file.raw
              /\ probe.result.pageCount = extractTextFromTXT(probe.file).pageCount
         /\ probe.result.ok => probe.file.readable
    /\ ~probe.result.ok => (probe.file.parse # "ok" /\ ~probe.file.readable)

\* An .odt file with malformed XML was extracted as plain text.
C17_Witness ==
  /\ Processed(".odt")
  /\ probe.file.parse = "bad_xml"
  /\ probe.result.ok
  /\ probe.result.text = probe.file.raw
  /\ probe.file.raw.words > 0

\* s < t as JavaScript compares strings: by the first differing character
\* code, a proper prefix being the smaller.
StringLess(s, t) ==
  \E k \in 1..(Len(t)) :
    /\ \A j \in 1..(k - 1) : j <= Len(s) /\ s[j] = t[j]
    /\ (k > Len(s) \/ (k <= Len(s) /\ s[k] < t[k]))

IsDigit(c) == c \in Zero..(Zero + 9)

\* Four digits, a hyphen, two digits.
IsYearMonth(key) ==
  /\ Len(key) = 7
  /\ \A i \in {1, 2, 3, 4, 6, 7} : IsDigit(key[i])
  /\ key[5] = Hyphen

\* C18: the period key is the zero-padded YYYY-MM string and a later month's key
\* is the greater string; an increment changes or creates only the record of
\* the month it is made in; when the month changes the ledger is left alone and
\* the new month starts at zero usage, not exceeded, whatever was used before;
\* what getCurrentUsage reports is the record of the current month.
C18_MonthIsolation ==
  [][/\ IsYearMonth(getCurrentMonth(now))
     /\ probe'.op = "incrementUsage" =>
          /\ \A i \in 1..Len(usages) :
               usages[i].month # getCurrentMonth(now) => usages'[i] = usages[i]
          /\ Len(usages') \in {Len(usages), Len(usages) + 1}
          /\ Len(usages') > Len(usages) =>
               usages'[Len(usages')].month = getCurrentMonth(now)
     /\ now' # now =>
          /\ usages' = usages
          /\ StringLess(getCurrentMonth(now), getCurrentMonth(now'))
          /\ \A u \in Users :
               /\ getCurrentUsage(usages', u, getCurrentMonth(now')) = Zeros
               /\ ~hasExceededLimit(usages', u, "free", getCurrentMonth(now')).exceeded
     /\ probe'.op = "getCurrentUsage" =>
          \A i \in 1..Len(usages) :
            (usages[i].userId = probe'.userId /\ usages[i].month = getCurrentMonth(now)) =>
              /\ probe'.currentUsage.documentCount = usages[i].documentCount
              /\ probe'.currentUsage.pageCount = usages[i].pageCount]_vars

\* The month after the one in which the document limit was reached:
\* getCurrentUsage answers zeros.
C18_Witness ==
  /\ probe.op = "getCurrentUsage"
  /\ probe.currentUsage = Zeros
  /\ \E i \in 1..Len(usages) :
       /\ usages[i].documentCount >= FreeDocuments
       /\ StringLess(usages[i].month, getCurrentMonth(now))

\* C19: two requests to /api/process-document whose summarizer calls failed for
\* different sub-reasons (quota_exceeded, rate_limited, invalid_credential,
\* malformed_input, timeout) are answered with different responses.
C19_SubReasonPreserved ==
  (/\ probe.op = "generateSummary"
   /\ probe.responses[1] # NoResp
   /\ probe.responses[2] # NoResp
   /\ probe.errors[1].reason # probe.errors[2].reason) =>
    probe.responses[1] # probe.responses[2]

\* The history endpoints.
HistoryOps == {"GET /api/documents", "GET /auth/documents"}

\* C20: every step leaves each persisted Document as it is (none is updated or
\* deleted); a Document appears only by the save of the request of its owner,
\* one at a time; the Documents of another user are never changed by the
\* requests of this one; GET /api/documents and GET /auth/documents return only
\* Documents that exist and whose userId is the requesting user.
C20_DocumentsImmutableAndPrivate ==
  [][/\ documents \sqsubseteq documents'
     /\ OwnedBy(documents', OtherUser) = OwnedBy(documents, OtherUser)
     /\ documents' # documents =>
          \E r \in Slots :
            /\ pc[r] = "save"
            /\ pc'[r] = "incrementUsage"
            /\ documents' = documents (+) SetToBag({[userId |-> req[r].user,
                                                     summarySize |-> req[r].summarySize]})
     /\ (probe'.op \in HistoryOps /\ probe' # probe) =>
          /\ probe'.documents \sqsubseteq documents
          /\ \A d \in BagToSet(probe'.documents) : d.userId = probe'.userId]_vars

\* The requesting user is shown its own Document while the other user's exist.
C20_Witness ==
  /\ probe.op = "GET /api/documents"
  /\ probe.status = 200
  /\ BagCardinality(probe.documents) = 1
  /\ BagCardinality(OwnedBy(documents, OtherUser)) = 2
  /\ BagCardinality(OwnedBy(documents, probe.userId)) = 1

\* C21: a request denied by canUploadDocument (403) has written nothing to the
\* ledger, has called neither the extractor nor the summarizer, has saved no
\* Document and has no uploaded file: the denial precedes the upload middleware.
C21_DenialBeforeUpload ==
  \A r \in Slots :
    Denied(r) =>
      /\ ~hist[r].stored
      /\ req[r].file = 0
      /\ req[r].pageCount = 0
      /\ hist[r].writes = 0
      /\ hist[r].summarizerCalls = 0
      /\ hist[r].saved = "none"

\* A denied request, while the user's ledger record and documents exist.
C21_Witness ==
  \E r \in Slots :
    /\ Denied(r)
    /\ req[r].usage.hasExceeded
    /\ CurrentUsage(req[r].user).documentCount >= FreeDocuments

\* A step of Usage.incrementUsage in slot r: the update of the matched record or
\* the admitted insert.
LedgerWriteStep(r) ==
  /\ pc[r] \in {"incrementUsage", "upsertInsert"}
  /\ hist'[r].writes = hist[r].writes + 1

\* C22: the ledger changes only in a step of Usage.incrementUsage, and in every
\* step each record stays in place with its user and month, its documentCount
\* and pageCount do not decrease, and no record disappears.
C22_LedgerOnlyGrows ==
  [][/\ usages' # usages => \E r \in Slots : LedgerWriteStep(r)
     /\ Len(usages') >= Len(usages)
     /\ \A i \in 1..Len(usages) :
          /\ usages'[i].userId = usages[i].userId
          /\ usages'[i].month = usages[i].month
          /\ usages'[i].documentCount >= usages[i].documentCount
          /\ usages'[i].pageCount >= usages[i].pageCount]_vars

\* A request has incremented a record that already counted documents.
C22_Witness ==
  \E r \in Slots :
    /\ pc[r] = "done"
    /\ hist[r].writes = 1
    /\ CurrentUsage(req[r].user).documentCount > PriorDocuments

\* C23: the step in which an authenticated request succeeds with its ledger
\* write applied adds exactly 1 to the documentCount and exactly the page count
\* extracted from its document to the pageCount of the user's record for the
\* month; a success whose ledger write threw, and every other step, leaves both
\* as they were, so that without such a failure the counts are the number and
\* the page sum of the successful documents.
C23_LedgerSumsSuccesses ==
  [][/\ usages' # usages =>
          \E r \in Slots : resp[r].status # 200 /\ resp'[r].status = 200
     /\ \A r \in Slots :
          (resp[r].status # 200 /\ resp'[r].status = 200 /\ req[r].kind = "auth") =>
            LET before == CurrentUsage(req[r].user)
                after == getCurrentUsage(usages', req[r].user, ThisMonth)
            IN IF ledgerFailures' = ledgerFailures
                 THEN /\ after.documentCount = before.documentCount + 1
                      /\ after.pageCount = before.pageCount + req[r].pageCount
                      /\ req[r].pageCount \in PageCounts
                 ELSE usages' = usages]_vars

\* Two successes with documents of 1 and 50 pages, both counted.
C23_Witness ==
  /\ ledgerFailures = 0
  /\ successes = 2
  /\ Len(usages) = 1
  /\ CurrentUsage("u1").documentCount = 2
  /\ CurrentUsage("u1").pageCount = 51

\* C24: no two UsageRecords have the same userId and month, also while first
\* increments of one user and month race; a caller whose insert the unique index
\* rejected finds the record on its next call, and once it has returned its
\* increment is in that record on top of the winner's.
C24_OneRecordPerUserMonth ==
  /\ \A i, j \in 1..Len(usages) :
       (usages[i].userId = usages[j].userId /\ usages[i].month = usages[j].month)
         => i = j
  /\ \A c \in Callers :
       callers[c].calls > 1 =>
         /\ Found(usages, "u1", ThisMonth)
         /\ callers[c].pc = "returned" =>
              /\ callers[c].applied = 1
              /\ CurrentUsage("u1").documentCount >= 2

\* Two callers lost the race for the insert and have both returned.
C24_Witness ==
  \E c, d \in Callers :
    /\ c # d
    /\ callers[c].calls = 2 /\ callers[c].pc = "returned"
    /\ callers[d].calls = 2 /\ callers[d].pc = "returned"
    /\ Len(usages) = 1

\* C25: in an authenticated request Usage.incrementUsage is reached or applied
\* only after Document.save has stored the Document, which happens only after
\* generateSummary was called and returned; a request whose Document.save
\* failed is answered 500 and has made no ledger write.
C25_SaveBeforeIncrement ==
  \A r \in Slots :
    req[r].kind = "auth" =>
      /\ (pc[r] \in {"incrementUsage", "upsertInsert"} \/ hist[r].writes > 0)
           => hist[r].saved # "none"
      /\ hist[r].saved # "none" =>
           /\ hist[r].summarizerCalls = 1
           /\ hist[r].saved = hist[r].sumTier
           /\ pc[r] \notin {"generateSummary", "save"}
      /\ hist[r].writes <= 1
      /\ resp[r].details = "Document save failed" =>
           /\ resp[r].status = 500
           /\ hist[r].saved = "none"
           /\ hist[r].writes = 0

\* One request has saved its Document and is about to increment while another
\* has failed in Document.save.
C25_Witness ==
  \E r, q \in Slots :
    /\ pc[r] = "incrementUsage" /\ hist[r].saved # "none" /\ hist[r].writes = 0
    /\ resp[q].details = "Document save failed"

\* C26: the step in which a request of either endpoint is answered 500, after
\* processDocument, generateSummary or Document.save threw, removes its uploaded
\* file from the uploads directory and leaves the ledger as it was; the request
\* has made no ledger write before it either.
C26_ThrownErrorCleansUp ==
  [][\A r \in Slots :
       (resp'[r].status = 500 /\ resp[r].status # 500) =>
         /\ pc[r] \in {"processDocument", "generateSummary", "save"}
         /\ hist[r].stored
         /\ req[r].file \notin files'
         /\ usages' = usages
         /\ hist'[r].writes = 0]_vars

\* An authenticated and a guest request have both been answered 500, and the
\* uploads directory is empty.
C26_Witness ==
  \E r, q \in Slots :
    /\ req[r].kind = "auth" /\ resp[r].status = 500
    /\ req[q].kind = "guest" /\ resp[q].status = 500
    /\ files = {}

\* C27: under non-overlapping requests the page check looks only at the
\* pageCount accumulated when the gate runs: a request is refused for page_limit
\* only with that pageCount at or above the plan's page limit, an admitted
\* request of a limited plan found it below the limit whatever the size of its
\* own document, and after its success the pageCount is at most the limit less
\* one plus the page count of its document.
C27_PageCheckIgnoresDocumentSize ==
  \A r \in Slots :
    (req[r].kind = "auth" /\ req[r].plan \in {"free", "premium"}) =>
      LET atCheck == req[r].usage.current
          limit == ExceededLimits(req[r].plan)
      IN /\ (Denied(r) /\ req[r].usage.limitReason = "page_limit") =>
              /\ atCheck.pageCount >= limit.pages
              /\ atCheck.documentCount < limit.documents
              /\ atCheck = CurrentUsage(req[r].user)
         /\ hist[r].stored => atCheck.pageCount < limit.pages
         /\ (resp[r].status = 200 /\ hist[r].writes = 1) =>
              /\ CurrentUsage(req[r].user).pageCount
                   = atCheck.pageCount + req[r].pageCount
              /\ CurrentUsage(req[r].user).pageCount
                   <= (limit.pages - 1) + req[r].pageCount

\* A free-plan request admitted at 51 accumulated pages has succeeded with a
\* document of 50 pages: the month's pageCount is above the limit of 100.
C27_Witness ==
  \E r \in Slots :
    /\ req[r].plan = "free"
    /\ resp[r].status = 200
    /\ hist[r].writes = 1
    /\ req[r].usage.current.pageCount = 51
    /\ req[r].pageCount = 50
    /\ CurrentUsage(req[r].user).pageCount > FreePages

\* The limits the plans are said to have, every other name counting as free.
StatedLimits(plan) ==
  CASE plan = "premium" -> [documents |-> 50, pages |-> 1000]
    [] plan = "pro"     -> [documents |-> Infinity, pages |-> Infinity]
    [] OTHER            -> [documents |-> 5, pages |-> 100]

\* C28: for every plan name getLimits returns free 5/100, premium 50/1000, pro
\* unbounded and the free limits for any other name, and hasExceededLimit applies
\* those same limits: it reports exceeded exactly when documentCount or pageCount
\* has reached them, and never for pro.
C28_LimitTablesAgree ==
  /\ probe.op = "getLimits" => probe.limits = StatedLimits(probe.plan)
  /\ probe.op = "hasExceededLimit" =>
       LET limit == StatedLimits(probe.plan)
           usage == CurrentUsage(probe.userId)
       IN /\ probe.limitCheck.exceeded <=>
               (\/ usage.documentCount >= limit.documents
                \/ usage.pageCount >= limit.pages)
          /\ probe.limitCheck.reason = "document_limit" =>
               probe.limitCheck.limit = limit.documents
          /\ probe.limitCheck.reason = "page_limit" =>
               probe.limitCheck.limit = limit.pages
          /\ probe.plan = "pro" => ~probe.limitCheck.exceeded

Terminated(c) == callers[c].pc \in {"returned", "threw"}

\* C29: every Usage.incrementUsage call ends; a call that has returned, whether
\* or not its insert was rejected with error 11000 and it called itself again,
\* has applied its increment exactly once; a call that has thrown got an error
\* other than 11000 and applied nothing; a call made again after a rejection
\* finds the record, so it is made again at most once and it ends as well.
C29_RetryAppliesOnce ==
  \A c \in Callers :
    /\ [](callers[c].pc = "returned" => callers[c].applied = 1)
    /\ [](callers[c].pc = "threw" =>
            callers[c].error = "other" /\ callers[c].applied = 0)
    /\ [](~Terminated(c) => callers[c].applied = 0)
    /\ [](callers[c].calls = 2 =>
            Found(usages, "u1", ThisMonth) /\ callers[c].pc # "insert")
    /\ [](callers[c].calls \in {1, 2})
    /\ <>Terminated(c)
    /\ (callers[c].calls = 2) ~> Terminated(c)

\* One caller was rejected with 11000, called again and returned with its
\* increment applied; another got a different error and threw.
C29_Witness ==
  \E c, d \in Callers :
    /\ callers[c].calls = 2 /\ callers[c].pc = "returned" /\ callers[c].applied = 1
    /\ callers[d].pc = "threw" /\ callers[d].error = "other"

Final(i) == photos[i].processingStatus \in {"completed", "failed"}

\* C30: in a batch the worker has been started for, a photo's processingStatus
\* changes only from pending to processing and from processing to completed or
\* failed; a photo is taken up only when every photo before it in processingOrder
\* is completed or failed, and at most one photo is processing; every photo of
\* the batch eventually is completed or failed; and GET /api/photos/results
\* answers 200 with the joined text only when every photo is completed.
C30_PhotoBatchCompletes ==
  /\ [][\A i \in 1..Len(photos) :
          photos'[i].processingStatus # photos[i].processingStatus =>
            <<photos[i].processingStatus, photos'[i].processingStatus>> \in
              {<<"pending", "processing">>, <<"processing", "completed">>,
               <<"processing", "failed">>}]_vars
  /\ [](\A i, j \in 1..Len(photos) :
          (i < j /\ photos[j].processingStatus # "pending") => Final(i))
  /\ \A i \in 1..MaxPhotos :
       (worker.pc # "none" /\ i <= Len(photos)) ~> (i <= Len(photos) /\ Final(i))
  /\ []((probe.op = "GET /api/photos/results" /\ probe.status = 200) =>
          \A i \in 1..Len(photos) : photos[i].processingStatus = "completed")

====
